---- MODULE Spec2Model ----
(***************************************************************************)
(* Cross-instance product synchronisation engine of catalog_web_portal:    *)
(* preview generation, synchronous and background execution, cooperative   *)
(* cancellation and the portal's preview route, over one connection.       *)
(*                                                                         *)
(* Strings are sequences of one-character strings, so that concatenation,  *)
(* joining and comparison of references are computed, not assumed.         *)
(* Python's False is the value PyFalse, distinct from every string.        *)
(***************************************************************************)
EXTENDS Integers, Sequences, FiniteSets, TLC

\* ------------------------------------------------------------------ bounds
NumProducts == 2
MaxRemote == 3
MaxPreviews == 2
MaxWorkers == 1
BatchSize == 5
RunWorkers == 2
NumCategories == 3
MaxCalls == 3
NumAttributes == 2
NumValues == 3
NumVariants == 2
MaxSyncs == 2
MaxFail == 2
MaxResolves == 2
MaxGenerated == 2
MaxWarnings == 2

Products == 1..NumProducts
PreviewIds == 1..MaxPreviews
WorkerIds == 1..MaxWorkers

\* ----------------------------------------------------------------- strings
PyFalse == <<"<False>">>

Truthy(v) ==
    /\ v # PyFalse /\ v # <<>> /\ v # <<"<float>", "0">> /\ v # <<"<int>", "0">>
    /\ v # <<"<None>">>

\* Python's `v or ''`
OrEmpty(v) == IF Truthy(v) THEN v ELSE <<>>

Digit(d) ==
    CASE d = 0 -> "0" [] d = 1 -> "1" [] d = 2 -> "2" [] d = 3 -> "3"
      [] d = 4 -> "4" [] d = 5 -> "5" [] d = 6 -> "6" [] d = 7 -> "7"
      [] d = 8 -> "8" [] d = 9 -> "9"

RECURSIVE IntToStr(_)
IntToStr(n) ==
    IF n < 10 THEN <<Digit(n)>> ELSE IntToStr(n \div 10) \o <<Digit(n % 10)>>

\* Python's True, and numbers: an int, and a float counted in tenths.
PyTrue == <<"<True>">>

PyInt(n) == <<"<int>">> \o IntToStr(n)

PyFloat(tenths) == <<"<float>">> \o IntToStr(tenths)

DigitChars == {"0", "1", "2", "3", "4", "5", "6", "7", "8", "9"}

DigitValue(ch) == CHOOSE d \in 0..9 : Digit(d) = ch

IsDigits(str) == str # <<>> /\ \A i \in 1..Len(str) : str[i] \in DigitChars

RECURSIVE StrToNat(_)
StrToNat(str) ==
    IF str = <<>> THEN 0
    ELSE 10 * StrToNat(SubSeq(str, 1, Len(str) - 1)) + DigitValue(str[Len(str)])

\* str.lower() over the letters that occur.
LowerChar(ch) ==
    CASE ch = "C" -> "c" [] ch = "S" -> "s" [] ch = "R" -> "r"
      [] ch = "B" -> "b" [] ch = "L" -> "l" [] ch = "Y" -> "y"
      [] ch = "T" -> "t" [] ch = "O" -> "o" [] OTHER -> ch

Lower(str) == [i \in 1..Len(str) |-> LowerChar(str[i])]

\* str.strip(): blanks at both ends are dropped.
RECURSIVE Strip(_)
Strip(str) ==
    IF str = <<>> THEN str
    ELSE IF Head(str) = " " THEN Strip(Tail(str))
    ELSE IF str[Len(str)] = " " THEN Strip(SubSeq(str, 1, Len(str) - 1))
    ELSE str

\* int(raw): PyFalse stands for the ValueError.
ParseInt(raw) == IF IsDigits(raw) THEN PyInt(StrToNat(raw)) ELSE PyFalse

\* float(raw) for digits with at most one decimal: PyFalse stands for the
\* ValueError.
ParseFloat(raw) ==
    LET dots == {i \in 1..Len(raw) : raw[i] = "."}
        dot == CHOOSE i \in dots : TRUE
        whole == SubSeq(raw, 1, dot - 1)
        frac == SubSeq(raw, dot + 1, Len(raw))
    IN IF IsDigits(raw) THEN PyFloat(10 * StrToNat(raw))
       ELSE IF /\ Cardinality(dots) = 1
               /\ whole \o frac # <<>>
               /\ Len(frac) <= 1
               /\ \A i \in 1..Len(raw) : i \in dots \/ raw[i] \in DigitChars
       THEN PyFloat(10 * StrToNat(whole) + StrToNat(frac))
       ELSE PyFalse

\* isinstance(v, (int, float)): bool is a subclass of int.
IsNumber(v) ==
    v \in {PyFalse, PyTrue} \/ (v # <<>> /\ Head(v) \in {"<int>", "<float>"})

\* A number in tenths.
Tenths(v) ==
    IF v = PyFalse THEN 0
    ELSE IF v = PyTrue THEN 10
    ELSE IF Head(v) = "<int>" THEN 10 * StrToNat(Tail(v))
    ELSE StrToNat(Tail(v))

\* Python's == on the values of a mapping: numbers and booleans compare by
\* value, everything else by type and content.
PyEquals(a, b) ==
    IF IsNumber(a) /\ IsNumber(b) THEN Tenths(a) = Tenths(b) ELSE a = b

\* v * coefficient, the coefficient being a float in tenths.
Times(v, coefficient) == PyFloat((Tenths(v) * coefficient) \div 10)

RECURSIVE Join(_, _)
Join(sep, parts) ==
    IF parts = <<>> THEN <<>>
    ELSE IF Len(parts) = 1 THEN Head(parts)
    ELSE Head(parts) \o sep \o Join(sep, Tail(parts))

\* --------------------------------------------------------- local products
\* product.template records of the supplier: read-only for the engine.
\* Product 2 has no internal reference (an empty Char field reads False).
ProductCode(p) == IF p = 2 THEN PyFalse ELSE <<"A">> \o IntToStr(p)

ProductName(p) == <<"N">> \o IntToStr(p)

ProductField(p, f) ==
    CASE f = "name" -> ProductName(p)
      [] f = "default_code" -> ProductCode(p)
      [] f = "list_price" -> PyFloat(100 * p)
      [] OTHER -> PyFalse

\* -------------------------------------------------------------- connection
\* The ids of the catalog.client records a connection can belong to.
ClientIds == {7}

ReferenceModes == {"keep_original", "supplier_ref", "product_id", "custom_format", "none"}

\* The connections the lifecycle model is run with.
Connections ==
    [client_id : ClientIds,
     reference_mode : {"keep_original", "none"},
     reference_prefix : {PyFalse},
     reference_suffix : {PyFalse},
     reference_separator : {<<"-">>},
     reference_custom_format : {PyFalse},
     auto_create_categories : {TRUE},
     sync_variants : {FALSE},
     create_supplierinfo : {FALSE},
     supplier_partner_id : {0},
     supplierinfo_price_coefficient : {10}]

external_id(conn, p) ==
    <<"s","u","p","p","l","i","e","r","_">> \o IntToStr(conn.client_id)
        \o <<"_","p","r","o","d","u","c","t","_">> \o IntToStr(p)

\* str.format over a format given as a sequence of literal characters and
\* placeholders.
RECURSIVE FormatRef(_, _, _)
FormatRef(fmt, conn, p) ==
    IF fmt = <<>> THEN <<>>
    ELSE LET t == Head(fmt)
             s == CASE t = "{prefix}" -> OrEmpty(conn.reference_prefix)
                    [] t = "{ref}" -> OrEmpty(ProductCode(p))
                    [] t = "{id}" -> IntToStr(p)
                    [] t = "{suffix}" -> OrEmpty(conn.reference_suffix)
                    [] t = "{separator}" -> OrEmpty(conn.reference_separator)
                    [] OTHER -> <<t>>
         IN s \o FormatRef(Tail(fmt), conn, p)

\* A faulty part list, kept for comparison: absent parts are kept as empty
\* texts.
ReferencePartsAll(conn, base_ref) ==
    <<OrEmpty(conn.reference_prefix), base_ref, OrEmpty(conn.reference_suffix)>>

ReferenceParts(conn, base_ref) ==
    (IF Truthy(conn.reference_prefix) THEN <<conn.reference_prefix>> ELSE <<>>)
        \o (IF Truthy(base_ref) THEN <<base_ref>> ELSE <<>>)
        \o (IF Truthy(conn.reference_suffix) THEN <<conn.reference_suffix>> ELSE <<>>)

generate_product_reference(conn, p) ==
    IF conn.reference_mode = "none" THEN PyFalse
    ELSE IF conn.reference_mode = "custom_format" /\ Truthy(conn.reference_custom_format)
    THEN FormatRef(conn.reference_custom_format, conn, p)
    ELSE LET base_ref == IF conn.reference_mode = "product_id"
                         THEN IntToStr(p)
                         ELSE OrEmpty(ProductCode(p))
             parts == ReferenceParts(conn, base_ref)
         IN IF parts # <<>>
            THEN Join(OrEmpty(conn.reference_separator), parts)
            ELSE PyFalse

\* ----------------------------------------------------------- field mapping
\* The field mappings of the connection, in sequence order.
FieldMappings ==
    << [source_field |-> "name", target_field |-> "name", sync_mode |-> "always",
        default_value |-> PyFalse, default_value_apply |-> "never",
        apply_coefficient |-> FALSE, coefficient |-> 10, is_active |-> TRUE],
       [source_field |-> "default_code", target_field |-> "default_code",
        sync_mode |-> "create_only",
        default_value |-> PyFalse, default_value_apply |-> "never",
        apply_coefficient |-> FALSE, coefficient |-> 10, is_active |-> TRUE] >>

\* TARGET_FIELD_TYPES.get(target_field, 'char')
TARGET_FIELD_TYPES(target_field) ==
    CASE target_field \in {"name", "default_code", "barcode"} -> "char"
      [] target_field \in {"list_price", "standard_price", "weight", "volume"} -> "float"
      [] target_field \in {"description_sale", "description_purchase"} -> "text"
      [] target_field = "categ_id" -> "integer"
      [] target_field = "type" -> "selection"
      [] target_field \in {"sale_ok", "purchase_ok", "is_published"} -> "boolean"
      [] OTHER -> "char"

_convert_default_value(m) ==
    IF ~Truthy(m.default_value) THEN PyFalse
    ELSE LET field_type == TARGET_FIELD_TYPES(m.target_field)
             raw == Strip(m.default_value)
         IN CASE field_type = "float" ->
                    (IF ParseFloat(raw) # PyFalse THEN ParseFloat(raw) ELSE PyFloat(0))
              [] field_type = "integer" -> ParseInt(raw)
              [] field_type = "boolean" ->
                    (IF Lower(raw) \in {<<"t","r","u","e">>, <<"1">>, <<"y","e","s">>,
                                        <<"o","u","i">>}
                     THEN PyTrue ELSE PyFalse)
              [] OTHER -> raw

\* A faulty resolution, kept for comparison: a non-empty source value wins
\* over the default.
ResolveSourceFirst(m, p) ==
    IF m.source_field # "_none" /\ p # 0 /\ Truthy(ProductField(p, m.source_field))
    THEN ProductField(p, m.source_field)
    ELSE _convert_default_value(m)

\* p = 0 stands for product=None.
_resolve_value(m, p) ==
    IF m.default_value_apply = "always" /\ Truthy(m.default_value)
    THEN _convert_default_value(m)
    ELSE IF m.source_field = "_none"
    THEN (IF Truthy(m.default_value) THEN _convert_default_value(m) ELSE PyFalse)
    ELSE LET source_value == IF p # 0 THEN ProductField(p, m.source_field) ELSE PyFalse
         IN IF m.default_value_apply = "if_source_empty" /\ ~Truthy(source_value)
                 /\ Truthy(m.default_value)
            THEN _convert_default_value(m)
            ELSE IF m.apply_coefficient /\ IsNumber(source_value)
            THEN Times(source_value, m.coefficient)
            ELSE source_value

\* ------------------------------------------------------------------ remote
\* The customer's product.template table: record id = index in the sequence.
PyNone == <<"<None>">>

RemoteRecord(code, name) == [default_code |-> code, name |-> name]

\* A faulty search, kept for comparison: the domain is ignored, every record matches.
remote_search_any(rem, code) == 1..Len(rem)

\* search [('default_code', '=', code)]: the matching ids, lowest first.
remote_search(rem, code) ==
    {rid \in 1..Len(rem) : rem[rid].default_code = code}

FirstId(ids) == CHOOSE rid \in ids : \A other \in ids : rid <= other

\* A remote call as the XML-RPC proxy sees it.
Call(model, method, rid, values, ok) ==
    [model |-> model, method |-> method, id |-> rid, values |-> values, ok |-> ok]

EmptyMap == [f \in {} |-> PyNone]

\* ----------------------------------------------------------------- changes
ActiveMappings == {i \in 1..Len(FieldMappings) : FieldMappings[i].is_active}

MappingFor(idxs, target) ==
    FieldMappings[CHOOSE i \in idxs : FieldMappings[i].target_field = target]

_create_create_change(conn, p) ==
    LET kept == {i \in ActiveMappings :
                    ~(FieldMappings[i].target_field = "default_code"
                      /\ conn.reference_mode # "keep_original")}
        generated_ref == generate_product_reference(conn, p)
        targets == {FieldMappings[i].target_field : i \in kept}
                     \cup (IF generated_ref # PyFalse THEN {"default_code"} ELSE {})
        changes == [f \in targets |->
                      [old |-> PyNone,
                       new |-> IF f = "default_code" /\ generated_ref # PyFalse
                               THEN generated_ref
                               ELSE _resolve_value(MappingFor(kept, f), p)]]
    IN [product_id |-> p, change_type |-> "create", client_product_id |-> 0,
        field_changes |-> changes, is_excluded |-> FALSE]

\* client_data.get(target_field): categ_id is not among the fields read.
ClientValue(client_data, target_field) ==
    IF target_field # "categ_id" /\ target_field \in DOMAIN client_data
    THEN client_data[target_field]
    ELSE PyNone

\* The mappings an update is diffed with.
UpdateMappings(mappings) ==
    {i \in 1..Len(mappings) :
        mappings[i].is_active /\ mappings[i].sync_mode # "create_only"}

\* The comparison loop of _create_update_change: the field changes of
\* product p against the customer's record.
UpdateChanges(mappings, p, client_data) ==
    LET differs(i) ==
            /\ ~(mappings[i].sync_mode = "if_empty"
                   /\ Truthy(ClientValue(client_data, mappings[i].target_field)))
            /\ ~PyEquals(_resolve_value(mappings[i], p),
                         ClientValue(client_data, mappings[i].target_field))
        changed == {i \in UpdateMappings(mappings) : differs(i)}
        row(f) == mappings[CHOOSE i \in changed : mappings[i].target_field = f]
    IN [f \in {mappings[i].target_field : i \in changed} |->
           [old |-> ClientValue(client_data, f), new |-> _resolve_value(row(f), p)]]

variant_external_id(conn, v) ==
    <<"s","u","p","p","l","i","e","r","_">> \o IntToStr(conn.client_id)
        \o <<"_","v","a","r","i","a","n","t","_">> \o IntToStr(v)

\* _get_variant_preview_data against a matched template: one entry per
\* variant that carries attribute values, with its action.  pv: the variants
\* of the product; skus: the default_codes of the customer's variants (none
\* when they could not be fetched).
_get_variant_preview_data(conn, pv, skus) ==
    LET variants == {v \in DOMAIN pv : pv[v] # {}}
    IN [v \in variants |->
           [variant_id |-> v,
            action |-> IF variant_external_id(conn, v) \in skus
                       THEN "update" ELSE "create"]]

\* The record _create_update_change creates from the field changes and the
\* variant data.
UpdateChange(p, client_product_id, changes, variant_data) ==
    IF DOMAIN changes # {} \/ DOMAIN variant_data # {}
    THEN [product_id |-> p, change_type |-> "update",
          client_product_id |-> client_product_id,
          field_changes |-> changes, is_excluded |-> FALSE]
    ELSE [product_id |-> p, change_type |-> "skip",
          client_product_id |-> client_product_id,
          field_changes |-> EmptyMap, is_excluded |-> FALSE]

\* The products of the lifecycle model have no variants.
_create_update_change(conn, p, client_product_id, rem) ==
    UpdateChange(p, client_product_id,
                 UpdateChanges(FieldMappings, p, rem[client_product_id]),
                 IF conn.sync_variants
                 THEN _get_variant_preview_data(conn, << >>, {})
                 ELSE << >>)

\* The loop body of action_generate_preview for one product.
PreviewChange(conn, p, rem) ==
    LET client_product_ids == remote_search(rem, external_id(conn, p))
    IN IF client_product_ids # {}
       THEN _create_update_change(conn, p, FirstId(client_product_ids), rem)
       ELSE _create_create_change(conn, p)

\* A faulty lookup, kept for comparison: a matched record is touched while
\* it is diffed.
PreviewCallsWriting(conn, p, rem) ==
    LET client_product_ids == remote_search(rem, external_id(conn, p))
    IN <<Call("product.template", "search", 0, EmptyMap, TRUE)>>
         \o (IF client_product_ids # {}
             THEN <<Call("product.template", "write", FirstId(client_product_ids), EmptyMap, TRUE)>>
             ELSE <<>>)

\* The remote calls of that loop body: one search, and one read on a match.
PreviewCalls(conn, p, rem) ==
    LET client_product_ids == remote_search(rem, external_id(conn, p))
    IN <<Call("product.template", "search", 0, EmptyMap, TRUE)>>
         \o (IF client_product_ids # {}
             THEN <<Call("product.template", "read", FirstId(client_product_ids), EmptyMap, TRUE)>>
             ELSE <<>>)

\* ---------------------------------------------------------------- executor
\* Result of executing one change: the remote afterwards, the remote calls
\* issued, the exception raised ("none" when the call returned) and the id of
\* the remote record created (0 when none).
ExecResult(rem, calls, raised, new_id) ==
    [remote |-> rem, calls |-> calls, raised |-> raised, new_id |-> new_id]

\* A faulty create, kept for comparison: without a reference the default_code
\* is left unset.
ExecuteCreateWithoutFallback(rem, conn, change, fail) ==
    LET p == change.product_id
        fc == change.field_changes
        has(f) == f \in DOMAIN fc /\ Truthy(fc[f].new)
        values == [f \in DOMAIN fc \cup {"name", "default_code"} |->
                     CASE f = "name" /\ ~has(f) -> ProductName(p)
                       [] f = "default_code" /\ ~has(f) -> PyFalse
                       [] OTHER -> fc[f].new]
    IN IF fail
       THEN ExecResult(rem, <<Call("product.template", "create", 0, values, FALSE)>>,
                       "remote", 0)
       ELSE ExecResult(Append(rem, RemoteRecord(values["default_code"], values["name"])),
                       <<Call("product.template", "create", 0, values, TRUE)>>,
                       "none", Len(rem) + 1)

\* fail: the remote rejects the create call.  The remote record keeps the
\* fields the model tracks (default_code, name); type, sale_ok, purchase_ok,
\* category and image are configured off or carry no tracked value.
_execute_create(rem, conn, change, fail) ==
    LET p == change.product_id
        fc == change.field_changes
        has(f) == f \in DOMAIN fc /\ Truthy(fc[f].new)
        values == [f \in DOMAIN fc \cup {"name", "default_code"} |->
                     CASE f = "name" /\ ~has(f) -> ProductName(p)
                       [] f = "default_code" /\ ~has(f) -> external_id(conn, p)
                       [] OTHER -> fc[f].new]
    IN IF fail
       THEN ExecResult(rem, <<Call("product.template", "create", 0, values, FALSE)>>,
                       "remote", 0)
       ELSE ExecResult(Append(rem, RemoteRecord(values["default_code"], values["name"])),
                       <<Call("product.template", "create", 0, values, TRUE)>>,
                       "none", Len(rem) + 1)

\* Faulty safety checks, kept for comparison: one that accepts every record, one that
\* accepts only the human reference.
SafetyCheckAcceptsAll(conn, p, default_code) == TRUE

SafetyCheckHumanOnly(conn, p, default_code) ==
    default_code = generate_product_reference(conn, p)

SafetyCheckPasses(conn, p, default_code) ==
    default_code = external_id(conn, p)

\* fail: the remote rejects the write call.
_execute_update(rem, conn, change, fail) ==
    LET p == change.product_id
        rid == change.client_product_id
        fc == change.field_changes
        read == Call("product.template", "read", rid, EmptyMap, TRUE)
        values == [f \in DOMAIN fc |-> fc[f].new]
        written == [f \in DOMAIN rem[rid] |->
                      IF f \in DOMAIN values THEN values[f] ELSE rem[rid][f]]
    IN IF ~SafetyCheckPasses(conn, p, rem[rid].default_code)
       THEN ExecResult(rem, <<read>>, "safety", 0)
       ELSE IF DOMAIN values = {}
       THEN ExecResult(rem, <<read>>, "none", 0)
       ELSE IF fail
       THEN ExecResult(rem, <<read, Call("product.template", "write", rid, values, FALSE)>>,
                       "remote", 0)
       ELSE ExecResult([rem EXCEPT ![rid] = written],
                       <<read, Call("product.template", "write", rid, values, TRUE)>>,
                       "none", 0)

NoStats == [created |-> 0, updated |-> 0, skipped |-> 0, errors |-> 0]

NewRun(rem, stats, errors) ==
    [remote |-> rem, calls |-> <<>>, stats |-> stats, errors |-> errors,
     new_ids |-> <<>>, results |-> <<>>]

\* A faulty count, kept for comparison: the change is counted before it is
\* executed, so a failed one is counted twice.
CountOutcomeBeforeExecute(st, change_type, raised) ==
    LET counted == IF change_type = "create" THEN [st EXCEPT !.created = @ + 1]
                   ELSE IF change_type = "update" THEN [st EXCEPT !.updated = @ + 1]
                   ELSE [st EXCEPT !.skipped = @ + 1]
    IN IF raised # "none" THEN [counted EXCEPT !.errors = @ + 1] ELSE counted

\* A faulty count, kept for comparison: skipped changes are not counted.
CountOutcomeWithoutSkips(st, change_type, raised) ==
    IF raised # "none"
    THEN [st EXCEPT !.errors = @ + 1]
    ELSE IF change_type = "create"
    THEN [st EXCEPT !.created = @ + 1]
    ELSE IF change_type = "update"
    THEN [st EXCEPT !.updated = @ + 1]
    ELSE st

\* The counters after one change: the counter of its type is incremented after
\* the executor returned, the error counter in the except clause.
CountOutcome(st, change_type, raised) ==
    IF raised # "none"
    THEN [st EXCEPT !.errors = @ + 1]
    ELSE IF change_type = "create"
    THEN [st EXCEPT !.created = @ + 1]
    ELSE IF change_type = "update"
    THEN [st EXCEPT !.updated = @ + 1]
    ELSE [st EXCEPT !.skipped = @ + 1]

\* The body of the per-change try block of both executors.  run is the
\* executor's running state: remote, calls issued so far, stats, error list,
\* the remote ids created per product and, per change processed, what was
\* read, raised and called.
ProcessChange(run, conn, change, fail) ==
    LET r == IF change.change_type = "create"
             THEN _execute_create(run.remote, conn, change, fail)
             ELSE IF change.change_type = "update"
             THEN _execute_update(run.remote, conn, change, fail)
             ELSE ExecResult(run.remote, <<>>, "none", 0)
        st == run.stats
    IN [remote |-> r.remote,
        calls |-> run.calls \o r.calls,
        stats |-> CountOutcome(st, change.change_type, r.raised),
        errors |-> IF r.raised # "none"
                   THEN Append(run.errors, [product |-> change.product_id, error |-> r.raised])
                   ELSE run.errors,
        new_ids |-> IF r.new_id # 0
                    THEN Append(run.new_ids, <<change.product_id, r.new_id>>)
                    ELSE run.new_ids,
        results |-> Append(run.results,
                       [change |-> change,
                        default_code |-> IF change.change_type = "update"
                                         THEN run.remote[change.client_product_id].default_code
                                         ELSE PyNone,
                        raised |-> r.raised,
                        calls |-> r.calls])]

RECURSIVE ProcessChanges(_, _, _, _, _)
ProcessChanges(run, conn, changes, i, failing) ==
    IF i > Len(changes) THEN run
    ELSE ProcessChanges(ProcessChange(run, conn, changes[i], i \in failing),
                        conn, changes, i + 1, failing)

\* A faulty filter, kept for comparison: the exclusion flag is ignored.
NotExcludedIgnored(changes) == changes

NotExcluded(changes) == SelectSeq(changes, LAMBDA c : ~c.is_excluded)

\* A faulty status, kept for comparison: the cancellation is not looked at.
SyncStatusIgnoresCancel(stats, was_cancelled) ==
    IF stats.errors = 0 THEN "success"
    ELSE IF stats.created + stats.updated > 0 THEN "partial"
    ELSE "error"

\* A faulty status, kept for comparison: any error makes the run an error.
SyncStatusNeverPartial(stats, was_cancelled) ==
    IF was_cancelled
    THEN (IF stats.created + stats.updated > 0 THEN "partial" ELSE "error")
    ELSE IF stats.errors = 0 THEN "success" ELSE "error"

SyncStatus(stats, was_cancelled) ==
    IF was_cancelled
    THEN (IF stats.created + stats.updated > 0 THEN "partial" ELSE "error")
    ELSE IF stats.errors = 0 THEN "success"
    ELSE IF stats.created + stats.updated > 0 THEN "partial"
    ELSE "error"

History(stats, status, errors, was_cancelled) ==
    [products_created |-> stats.created, products_updated |-> stats.updated,
     products_skipped |-> stats.skipped, products_error |-> stats.errors,
     status |-> status,
     error_message |-> IF errors # <<>> THEN "errors"
                       ELSE IF was_cancelled THEN "Import cancelled by user"
                       ELSE "",
     errors |-> errors]

\* ------------------------------------------------------------------- state
VARIABLES
    connection,     \* the catalog.client.connection record
    remote,         \* the customer's product.template records
    createdFor,     \* per local product, the remote ids the engine created for it
    previews,       \* catalog.sync.preview rows, by id (deleted rows are absent)
    nextPreviewId,  \* the id the next created preview gets
    histories,      \* committed catalog.sync.history rows, id = index
    workers,        \* background threads started by action_execute_sync_background
    rpcLog,         \* the remote calls issued by the last step
    stateLog,       \* the assignments to preview.state made by the last step
    lastRun,        \* what the last step processed: changes and their outcome
    category_mapping_ids,         \* catalog.category.mapping rows of the connection
    attribute_mapping_ids,        \* catalog.attribute.mapping rows of the connection
    attribute_value_mapping_ids,  \* catalog.attribute.value.mapping rows
    remote_categories,            \* the customer's product.category records
    remote_attributes,            \* the customer's product.attribute records
    remote_values,                \* the customer's product.attribute.value records
    callLog,        \* the calls of the mapping helpers made so far, with their results
    remote_attribute_lines,       \* attribute lines of the customer's template
    product_variant_ids,          \* the supplier template's variants and their values
    selected_variant_ids,         \* catalog.client.selected_variant_ids
    field_mapping,                \* the catalog.field.mapping row being resolved
    remote_supplierinfo           \* the customer's product.supplierinfo records

\* The taxonomy side: mapping tables, the customer's taxonomy, helper calls.
taxonomy == <<category_mapping_ids, attribute_mapping_ids, attribute_value_mapping_ids,
              remote_categories, remote_attributes, remote_values, callLog,
              remote_attribute_lines, product_variant_ids, selected_variant_ids,
              field_mapping, remote_supplierinfo>>

\* The lifecycle side: previews, products, histories and workers.
lifecycle == <<remote, createdFor, previews, nextPreviewId, histories, workers,
               stateLog, lastRun>>

vars == <<connection, remote, createdFor, previews, nextPreviewId, histories,
          workers, rpcLog, stateLog, lastRun, taxonomy>>

\* No mapping row, an empty taxonomy on the customer's side, no helper call.
NoTaxonomy ==
    /\ category_mapping_ids = << >>
    /\ attribute_mapping_ids = << >>
    /\ attribute_value_mapping_ids = << >>
    /\ remote_categories = <<>>
    /\ remote_attributes = <<>>
    /\ remote_values = <<>>
    /\ callLog = <<>>
    /\ remote_attribute_lines = << >>
    /\ product_variant_ids = << >>
    /\ selected_variant_ids = {}
    /\ field_mapping = FieldMappings[1]
    /\ remote_supplierinfo = <<>>

States == {"draft", "analyzing", "ready", "executing", "done", "cancelled"}

NewPreview(product_ids) ==
    [state |-> "draft", product_ids |-> product_ids, changes |-> <<>>,
     sync_progress |-> 0, sync_current |-> 0, sync_total |-> 0,
     sync_message |-> "", sync_history_id |-> 0, sync_error_message |-> ""]

IdleWorker ==
    [pc |-> "idle", preview_id |-> 0, changes |-> <<>>, idx |-> 0,
     stats |-> NoStats, errors |-> <<>>, was_cancelled |-> FALSE,
     cancel_seen_at |-> 0]

LastRun(kind, id, results) == [kind |-> kind, preview_id |-> id, results |-> results]

NoRun == LastRun("none", 0, <<>>)

\* No preview, no product on the customer's side, no history, idle workers.
NoLifecycle ==
    /\ remote = <<>>
    /\ createdFor = [p \in Products |-> {}]
    /\ previews = << >>
    /\ nextPreviewId = 1
    /\ histories = <<>>
    /\ workers = [w \in WorkerIds |-> IdleWorker]
    /\ stateLog = <<>>
    /\ lastRun = NoRun

RECURSIVE SetToSeq(_)
SetToSeq(S) ==
    IF S = {} THEN <<>>
    ELSE LET m == CHOOSE x \in S : \A y \in S : x <= y
         IN <<m>> \o SetToSeq(S \ {m})

\* The remote tables the model starts from: empty, a product of the customer's
\* own, or a record that already carries product 1's reference.
InitialRemotes(conn) ==
    { <<>>,
      <<RemoteRecord(<<"X">>, <<"O">>)>>,
      <<RemoteRecord(external_id(conn, 1), <<"O">>)>> }
    \cup (IF generate_product_reference(conn, 1) # PyFalse
          THEN {<<RemoteRecord(generate_product_reference(conn, 1), <<"O">>)>>}
          ELSE {})

Init ==
    /\ connection \in Connections
    /\ remote \in InitialRemotes(connection)
    /\ createdFor = [p \in Products |-> {}]
    /\ previews = [i \in {} |-> NewPreview(<<>>)]
    /\ nextPreviewId = 1
    /\ histories = <<>>
    /\ workers = [w \in WorkerIds |-> IdleWorker]
    /\ rpcLog = <<>>
    /\ stateLog = <<>>
    /\ lastRun = NoRun
    /\ NoTaxonomy

Existing == DOMAIN previews

Without(f, ids) == [i \in DOMAIN f \ ids |-> f[i]]

With(f, i, v) == [j \in DOMAIN f \cup {i} |-> IF j = i THEN v ELSE f[j]]

AddCreated(cf, new_ids) ==
    [p \in DOMAIN cf |->
        cf[p] \cup {new_ids[k][2] : k \in {j \in 1..Len(new_ids) : new_ids[j][1] = p}}]

AuthCall(ok) == Call("common", "authenticate", 0, EmptyMap, ok)

\* ------------------------------------------------------ preview generation
RECURSIVE BatchCalls(_, _, _)
BatchCalls(conn, prods, rem) ==
    IF prods = <<>> THEN <<>>
    ELSE PreviewCalls(conn, Head(prods), rem) \o BatchCalls(conn, Tail(prods), rem)

\* action_generate_preview on preview row pv.  authOk: the remote accepts the
\* credentials; failAt: the product (position in the batch) whose remote search
\* raises, 0 for none.  Returns the row afterwards, the calls and the state
\* assignments.
GeneratePreview(id, pv, conn, rem, authOk, failAt) ==
    LET n == Len(pv.product_ids)
        done == IF ~authOk THEN 0 ELSE IF failAt = 0 THEN n ELSE failAt - 1
        failed == ~authOk \/ failAt # 0
        changes == [i \in 1..done |-> PreviewChange(conn, pv.product_ids[i], rem)]
        calls == <<AuthCall(authOk)>>
                   \o BatchCalls(conn, SubSeq(pv.product_ids, 1, done), rem)
                   \o (IF authOk /\ failAt # 0
                       THEN <<Call("product.template", "search", 0, EmptyMap, FALSE)>>
                       ELSE <<>>)
        final == IF failed THEN "draft" ELSE "ready"
    IN [row |-> [pv EXCEPT !.state = final, !.changes = changes],
        calls |-> calls,
        states |-> << <<id, pv.state, "analyzing">>, <<id, "analyzing", final>> >>,
        raised |-> failed]

\* The client's cart: every product of the catalog is selected.
selected_product_ids == SetToSeq(Products)

\* catalog_sync_preview: the portal's preview route.
PortalSyncPreview(authOk, failAt) ==
    /\ selected_product_ids # <<>>
    /\ ~\E i \in Existing : previews[i].state = "executing"
    /\ LET stale == {i \in Existing : previews[i].state \in {"cancelled", "done"}}
           kept == Without(previews, stale)
           drafts == {i \in DOMAIN kept : kept[i].state = "draft"}
           id == IF drafts # {} THEN FirstId(drafts) ELSE nextPreviewId
           row == IF drafts # {}
                  THEN [kept[id] EXCEPT !.product_ids = selected_product_ids]
                  ELSE NewPreview(selected_product_ids)
           g == GeneratePreview(id, row, connection, remote, authOk, failAt)
       IN /\ id <= MaxPreviews
          /\ failAt <= Len(row.product_ids)
          /\ previews' = With(kept, id, g.row)
          /\ nextPreviewId' = IF drafts # {} THEN nextPreviewId ELSE nextPreviewId + 1
          /\ rpcLog' = g.calls
          /\ stateLog' = g.states
          /\ lastRun' = LastRun("portal_preview", id, <<>>)
    /\ UNCHANGED <<taxonomy, connection, remote, createdFor, histories, workers>>

\* The user excludes a change from, or takes it back into, the sync.
SetExcluded(id, i, excluded) ==
    /\ id \in Existing
    /\ previews[id].state = "ready"
    /\ i \in 1..Len(previews[id].changes)
    /\ previews[id].changes[i].is_excluded # excluded
    /\ previews' = [previews EXCEPT ![id].changes[i].is_excluded = excluded]
    /\ rpcLog' = <<>>
    /\ stateLog' = <<>>
    /\ lastRun' = NoRun
    /\ UNCHANGED <<taxonomy, connection, remote, createdFor, nextPreviewId, histories, workers>>

\* ---------------------------------------------------- synchronous execution
\* action_execute_sync.  failing: the positions (among the non-excluded
\* changes) whose remote create/write call is rejected.
ActionExecuteSync(id, authOk, failing) ==
    /\ id \in Existing
    /\ previews[id].state = "ready"
    /\ LET changes == NotExcluded(previews[id].changes)
           run == ProcessChanges(NewRun(remote, NoStats, <<>>), connection, changes, 1, failing)
       IN /\ failing \subseteq 1..Len(changes)
          /\ IF ~authOk
             THEN /\ previews' = [previews EXCEPT ![id].state = "ready"]
                  /\ stateLog' = << <<id, "ready", "executing">>, <<id, "executing", "ready">> >>
                  /\ rpcLog' = <<AuthCall(FALSE)>>
                  /\ lastRun' = LastRun("execute_sync", id, <<>>)
                  /\ UNCHANGED <<remote, createdFor, histories>>
             ELSE /\ Len(run.remote) <= MaxRemote
                  /\ remote' = run.remote
                  /\ createdFor' = AddCreated(createdFor, run.new_ids)
                  /\ histories' = Append(histories,
                        History(run.stats, SyncStatus(run.stats, FALSE), run.errors, FALSE))
                  /\ previews' = [previews EXCEPT ![id].state = "done"]
                  /\ stateLog' = << <<id, "ready", "executing">>, <<id, "executing", "done">> >>
                  /\ rpcLog' = <<AuthCall(TRUE)>> \o run.calls
                  /\ lastRun' = LastRun("execute_sync", id, run.results)
    /\ UNCHANGED <<taxonomy, connection, nextPreviewId, workers>>

\* ----------------------------------------------------- background execution
FreeWorkers == {w \in DOMAIN workers : workers[w].pc = "idle"}

\* A faulty guard, kept for comparison: only a finished preview is refused.
MayStartUnlessDone(pv) == pv.state # "done"

\* The guard of action_execute_sync_background; otherwise it raises.
MayStart(pv) == pv.state = "ready"

\* action_execute_sync_background: mark the preview executing, commit, start
\* the thread.
ActionExecuteSyncBackground(id) ==
    /\ id \in Existing
    /\ MayStart(previews[id])
    /\ FreeWorkers # {}
    /\ previews' = [previews EXCEPT
          ![id].state = "executing",
          ![id].sync_progress = 0,
          ![id].sync_current = 0,
          ![id].sync_total = Len(NotExcluded(previews[id].changes)),
          ![id].sync_message = "Starting import...",
          ![id].sync_error_message = ""]
    /\ workers' = [workers EXCEPT ![FirstId(FreeWorkers)] =
                      [IdleWorker EXCEPT !.pc = "start", !.preview_id = id]]
    /\ rpcLog' = <<>>
    /\ stateLog' = << <<id, "ready", "executing">> >>
    /\ lastRun' = NoRun
    /\ UNCHANGED <<taxonomy, connection, remote, createdFor, nextPreviewId, histories>>

\* action_cancel_sync: only an executing preview is touched.
ActionCancelSync(id) ==
    /\ id \in Existing
    /\ previews[id].state = "executing"
    /\ previews' = [previews EXCEPT ![id].state = "cancelled",
                                    ![id].sync_message = "Cancelling..."]
    /\ rpcLog' = <<>>
    /\ stateLog' = << <<id, "executing", "cancelled">> >>
    /\ lastRun' = NoRun
    /\ UNCHANGED <<taxonomy, connection, remote, createdFor, nextPreviewId, histories, workers>>

\* The handler of the outer try of _run_sync_thread: roll back, then mark the
\* preview ready with the error if the row still exists.
FatalHandler(w, error) ==
    LET id == workers[w].preview_id
    IN /\ workers' = [workers EXCEPT ![w] = IdleWorker]
       /\ IF id \in Existing
          THEN /\ previews' = [previews EXCEPT ![id].state = "ready",
                                               ![id].sync_error_message = error,
                                               ![id].sync_message = "Import failed"]
               /\ stateLog' = << <<id, previews[id].state, "ready">> >>
          ELSE /\ previews' = previews
               /\ stateLog' = <<>>

\* Thread start up to the loop: open a cursor, find the preview, authenticate,
\* load the non-excluded changes.
WorkerStart(w, authOk) ==
    /\ workers[w].pc = "start"
    /\ LET id == workers[w].preview_id
       IN IF id \notin Existing
          THEN /\ workers' = [workers EXCEPT ![w] = IdleWorker]
               /\ rpcLog' = <<>>
               /\ stateLog' = <<>>
               /\ previews' = previews
          ELSE IF ~authOk
          THEN /\ FatalHandler(w, "Authentication failed")
               /\ rpcLog' = <<AuthCall(FALSE)>>
          ELSE LET changes == NotExcluded(previews[id].changes)
               IN /\ workers' = [workers EXCEPT
                        ![w].pc = IF changes = <<>> THEN "postloop" ELSE "loop",
                        ![w].changes = changes,
                        ![w].idx = 1]
                  /\ rpcLog' = <<AuthCall(TRUE)>>
                  /\ stateLog' = <<>>
                  /\ previews' = previews
    /\ lastRun' = LastRun("worker_start", workers[w].preview_id, <<>>)
    /\ UNCHANGED <<taxonomy, connection, remote, createdFor, nextPreviewId, histories>>

\* A faulty progress, kept for comparison: the one of the changes completed so
\* far, as if written after the change instead of before it.
ProgressOfCompleted(idx, total) ==
    [sync_current |-> idx - 1,
     sync_progress |-> IF total # 0 THEN ((idx - 1) * 100) \div total ELSE 100]

\* The progress written before change idx of total is executed.
Progress(idx, total) ==
    [sync_current |-> idx,
     sync_progress |-> IF total # 0 THEN (idx * 100) \div total ELSE 100]

\* Top of the loop body for change idx: re-read the state column, then either
\* stop on cancellation or commit the progress of this change.
WorkerCheck(w) ==
    /\ workers[w].pc = "loop"
    /\ LET id == workers[w].preview_id
           idx == workers[w].idx
           total == Len(workers[w].changes)
           change == workers[w].changes[idx]
       IN IF id \notin Existing
          THEN \* no row: the write on the deleted preview raises inside the
               \* per-change try, the change is counted as an error
               /\ workers' = [workers EXCEPT
                     ![w].stats.errors = @ + 1,
                     ![w].errors = Append(@, [product |-> change.product_id,
                                              error |-> "missing"]),
                     ![w].idx = idx + 1,
                     ![w].pc = IF idx >= total THEN "postloop" ELSE "loop"]
               /\ previews' = previews
          ELSE IF previews[id].state = "cancelled"
          THEN /\ workers' = [workers EXCEPT ![w].pc = "postloop",
                                             ![w].cancel_seen_at = idx]
               /\ previews' = [previews EXCEPT
                     ![id].sync_message = "Import cancelled by user"]
          ELSE /\ workers' = [workers EXCEPT ![w].pc = "process"]
               /\ previews' = [previews EXCEPT
                     ![id].sync_current = Progress(idx, total).sync_current,
                     ![id].sync_progress = Progress(idx, total).sync_progress,
                     ![id].sync_message = "Importing..."]
    /\ rpcLog' = <<>>
    /\ stateLog' = <<>>
    /\ lastRun' = LastRun("worker_check", workers[w].preview_id, <<>>)
    /\ UNCHANGED <<taxonomy, connection, remote, createdFor, nextPreviewId, histories>>

\* Rest of the loop body: execute change idx.  fail: the remote rejects the
\* create/write call.
WorkerProcess(w, fail) ==
    /\ workers[w].pc = "process"
    /\ LET idx == workers[w].idx
           total == Len(workers[w].changes)
           run == ProcessChange(NewRun(remote, workers[w].stats, workers[w].errors),
                                connection, workers[w].changes[idx], fail)
       IN /\ Len(run.remote) <= MaxRemote
          /\ remote' = run.remote
          /\ createdFor' = AddCreated(createdFor, run.new_ids)
          /\ workers' = [workers EXCEPT
                ![w].stats = run.stats,
                ![w].errors = run.errors,
                ![w].idx = idx + 1,
                ![w].pc = IF idx >= total THEN "postloop" ELSE "loop"]
          /\ rpcLog' = run.calls
          /\ lastRun' = LastRun("worker_process", workers[w].preview_id, run.results)
    /\ stateLog' = <<>>
    /\ UNCHANGED <<taxonomy, connection, previews, nextPreviewId, histories>>

\* After the loop: re-read the state column once more.
WorkerPostLoop(w) ==
    /\ workers[w].pc = "postloop"
    /\ LET id == workers[w].preview_id
       IN workers' = [workers EXCEPT
             ![w].pc = "finalize",
             ![w].was_cancelled = (id \in Existing /\ previews[id].state = "cancelled")]
    /\ rpcLog' = <<>>
    /\ stateLog' = <<>>
    /\ lastRun' = LastRun("worker_postloop", workers[w].preview_id, <<>>)
    /\ UNCHANGED <<taxonomy, connection, remote, createdFor, previews, nextPreviewId, histories>>

\* Create the History row, mark the preview done and commit; a write on a
\* deleted preview raises, which rolls the History row back.
WorkerFinalize(w) ==
    /\ workers[w].pc = "finalize"
    /\ LET id == workers[w].preview_id
           me == workers[w]
       IN IF id \notin Existing
          THEN /\ FatalHandler(w, "Record does not exist or has been deleted")
               /\ histories' = histories
          ELSE /\ histories' = Append(histories,
                     History(me.stats, SyncStatus(me.stats, me.was_cancelled),
                             me.errors, me.was_cancelled))
               /\ previews' = [previews EXCEPT
                     ![id].state = "done",
                     ![id].sync_progress = 100,
                     ![id].sync_message = IF me.was_cancelled
                                          THEN "Import cancelled by user"
                                          ELSE "Import complete!",
                     ![id].sync_history_id = Len(histories) + 1]
               /\ stateLog' = << <<id, previews[id].state, "done">> >>
               /\ workers' = [workers EXCEPT ![w] = IdleWorker]
    /\ rpcLog' = <<>>
    /\ lastRun' = LastRun("worker_finalize", workers[w].preview_id, <<>>)
    /\ UNCHANGED <<taxonomy, connection, remote, createdFor, nextPreviewId>>

\* --------------------------------------------------------------- customer
\* The customer replaces the reference of a record that carries an external
\* identifier of the engine, in their own database.
RemoteEditCodes ==
    {<<"X">>} \cup ({generate_product_reference(connection, p) : p \in Products} \ {PyFalse})

RemoteEdit(rid, code) ==
    /\ rid \in 1..Len(remote)
    /\ code \in RemoteEditCodes
    /\ \E p \in Products : remote[rid].default_code = external_id(connection, p)
    /\ remote' = [remote EXCEPT ![rid].default_code = code]
    /\ rpcLog' = <<>>
    /\ stateLog' = <<>>
    /\ lastRun' = NoRun
    /\ UNCHANGED <<taxonomy, connection, createdFor, previews, nextPreviewId, histories, workers>>

\* ------------------------------------------------------------ specification
Engine ==
    \/ \E authOk \in BOOLEAN, failAt \in 0..NumProducts :
          PortalSyncPreview(authOk, failAt)
    \/ \E id \in PreviewIds, authOk \in BOOLEAN, failing \in SUBSET (1..NumProducts) :
          ActionExecuteSync(id, authOk, failing)
    \/ \E id \in PreviewIds : ActionExecuteSyncBackground(id)
    \/ \E id \in PreviewIds : ActionCancelSync(id)
    \/ \E w \in WorkerIds, authOk \in BOOLEAN : WorkerStart(w, authOk)
    \/ \E w \in WorkerIds : WorkerCheck(w)
    \/ \E w \in WorkerIds, fail \in BOOLEAN : WorkerProcess(w, fail)
    \/ \E w \in WorkerIds : WorkerPostLoop(w)
    \/ \E w \in WorkerIds : WorkerFinalize(w)

Next ==
    \/ Engine
    \/ \E id \in PreviewIds, i \in 1..NumProducts, excluded \in BOOLEAN :
          SetExcluded(id, i, excluded)

Spec == Init /\ [][Next]_vars

\* The same system with a customer who edits references in their database.
NextRemoteEdit ==
    \/ Engine
    \/ \E rid \in 1..MaxRemote, code \in RemoteEditCodes : RemoteEdit(rid, code)

SpecRemoteEdit == Init /\ [][NextRemoteEdit]_vars

\* One background run over a batch of BatchSize products, from the moment the
\* portal has generated the preview: execute request, cancel request and the
\* worker's steps.
Batch == SetToSeq(1..BatchSize)

\* The threads the server can run at a time in this scenario.
RunWorkerIds == 1..RunWorkers

BatchRemotes(conn) ==
    { <<>>,
      <<RemoteRecord(external_id(conn, 1), <<"O">>),
        RemoteRecord(external_id(conn, 2), ProductName(2))>> }

InitBackgroundRun ==
    /\ connection \in Connections
    /\ remote \in BatchRemotes(connection)
    /\ createdFor = [p \in 1..BatchSize |-> {}]
    /\ previews = With([i \in {} |-> NewPreview(<<>>)], 1,
                       GeneratePreview(1, NewPreview(Batch), connection, remote, TRUE, 0).row)
    /\ nextPreviewId = 2
    /\ histories = <<>>
    /\ workers = [w \in RunWorkerIds |-> IdleWorker]
    /\ rpcLog = <<>>
    /\ stateLog = <<>>
    /\ lastRun = NoRun
    /\ NoTaxonomy

NextBackgroundRun ==
    \/ \E id \in PreviewIds : ActionExecuteSyncBackground(id)
    \/ \E id \in PreviewIds : ActionCancelSync(id)
    \/ \E w \in RunWorkerIds, authOk \in BOOLEAN : WorkerStart(w, authOk)
    \/ \E w \in RunWorkerIds : WorkerCheck(w)
    \/ \E w \in RunWorkerIds, fail \in BOOLEAN : WorkerProcess(w, fail)
    \/ \E w \in RunWorkerIds : WorkerPostLoop(w)
    \/ \E w \in RunWorkerIds : WorkerFinalize(w)
    \/ \E id \in PreviewIds, i \in 1..BatchSize, excluded \in BOOLEAN :
          SetExcluded(id, i, excluded)

SpecBackgroundRun == InitBackgroundRun /\ [][NextBackgroundRun]_vars

\* ---------------------------------------------------------------- taxonomy
\* Local product.category records.  Categories 1 and 3 carry the same name
\* (under different parents).
Categories == 1..NumCategories

CategoryName(c) == IF c = 2 THEN <<"B">> ELSE <<"A">>

\* search [('name', '=', name)] on the customer's product.category.
remote_category_search(rem, name) == {rid \in 1..Len(rem) : rem[rid] = name}

\* A faulty lookup, kept for comparison: the stored client id is not used.
MappedCategoryNever(maps, c) == 0

\* The client id a stored mapping gives for category c, 0 (falsy) when there
\* is no mapping or its client id is not set.
MappedCategory(maps, c) == IF c \in DOMAIN maps THEN maps[c] ELSE 0

\* _map_category.  fail: the remote call that raises ("none", "search" or
\* "create").  Gives the returned id (0 for False), whether it raised, the
\* calls issued, and the mapping and remote tables afterwards.
_map_category(maps, rem, conn, c, fail) ==
    LET search(ok) == Call("product.category", "search", 0, EmptyMap, ok)
        create(ok) == Call("product.category", "create", 0,
                           [name |-> CategoryName(c)], ok)
        found == remote_category_search(rem, CategoryName(c))
        out(id, raised, calls, rem2) ==
            [result |-> id, raised |-> raised, calls |-> calls,
             maps |-> IF id # 0 /\ calls # <<>> THEN With(maps, c, id) ELSE maps,
             remote |-> rem2]
    IN IF MappedCategory(maps, c) # 0
       THEN out(MappedCategory(maps, c), FALSE, <<>>, rem)
       ELSE IF ~conn.auto_create_categories
       THEN out(0, FALSE, <<>>, rem)
       ELSE IF fail = "search"
       THEN out(0, TRUE, <<search(FALSE)>>, rem)
       ELSE IF found # {}
       THEN out(FirstId(found), FALSE, <<search(TRUE)>>, rem)
       ELSE IF fail = "create"
       THEN out(0, TRUE, <<search(TRUE), create(FALSE)>>, rem)
       ELSE out(Len(rem) + 1, FALSE, <<search(TRUE), create(TRUE)>>,
                Append(rem, CategoryName(c)))

\* One call of _map_category for category c, as the create path of the
\* executor makes it for a product of that category.
MapCategory(c, fail) ==
    /\ Len(callLog) < MaxCalls
    /\ LET r == _map_category(category_mapping_ids, remote_categories, connection, c, fail)
       IN /\ r.calls = <<>> => fail = "none"
          /\ (fail = "create") => \E k \in 1..Len(r.calls) : r.calls[k].method = "create"
          /\ category_mapping_ids' = r.maps
          /\ remote_categories' = r.remote
          /\ rpcLog' = r.calls
          /\ callLog' = Append(callLog, [op |-> "_map_category", arg |-> c,
                                         result |-> r.result, raised |-> r.raised,
                                         calls |-> r.calls])
    /\ UNCHANGED <<lifecycle, connection, attribute_mapping_ids,
                   attribute_value_mapping_ids, remote_attributes, remote_values,
                   remote_attribute_lines, product_variant_ids, selected_variant_ids,
                   field_mapping, remote_supplierinfo>>

\* The states category mapping starts from: any auto-create setting, no
\* mapping or a mapping of category 1 without client id, and a customer who
\* has no category, an unrelated one, or one with the name of category 1.
InitMapCategory ==
    /\ connection \in {[conn EXCEPT !.auto_create_categories = b] :
                           conn \in Connections, b \in BOOLEAN}
    /\ NoLifecycle
    /\ rpcLog = <<>>
    /\ category_mapping_ids \in {<< >>, With(<< >>, 1, 0)}
    /\ remote_categories \in {<<>>, << <<"Z">> >>, << <<"Z">>, CategoryName(1) >>}
    /\ attribute_mapping_ids = << >>
    /\ attribute_value_mapping_ids = << >>
    /\ remote_attributes = <<>>
    /\ remote_values = <<>>
    /\ callLog = <<>>
    /\ remote_attribute_lines = << >>
    /\ product_variant_ids = << >>
    /\ selected_variant_ids = {}
    /\ field_mapping = FieldMappings[1]
    /\ remote_supplierinfo = <<>>

NextMapCategory ==
    \E c \in Categories, fail \in {"none", "search", "create"} : MapCategory(c, fail)

SpecMapCategory == InitMapCategory /\ [][NextMapCategory]_vars

\* ---------------------------------------------------------------- variants
\* The attributes and attribute values of the supplier's template.  Values are
\* dealt to the attributes in turn; values 1 and 2 carry the same name under
\* different attributes.
Attributes == 1..NumAttributes

AttributeValues == 1..NumValues

ValueAttribute(v) == ((v - 1) % NumAttributes) + 1

AttributeName(a) == IF a = 1 THEN <<"C">> ELSE <<"S">>

ValueName(v) == IF v <= 2 THEN <<"R">> ELSE IF v = 3 THEN <<"B">> ELSE <<"L">>

create_variant(a) == IF a = 1 THEN "always" ELSE "dynamic"

\* line.value_ids of the template's attribute line for attribute a.
LineValues(a) == {v \in AttributeValues : ValueAttribute(v) = a}

\* The template's variants, and a variant of another template.
Variants == 1..NumVariants

ForeignVariant == NumVariants + 1

\* product_template_attribute_value_ids of a variant: one value per attribute
\* at most.
Combinations ==
    {c \in SUBSET AttributeValues :
        c # {} /\ \A v, w \in c : ValueAttribute(v) = ValueAttribute(w) => v = w}

\* ('name', '=ilike', name) on names without wildcard characters.
ILike(a, b) == Lower(a) = Lower(b)

RemoteValue(name, attribute_id) == [name |-> name, attribute_id |-> attribute_id]

\* The running state of one _sync_variants_to_client call: mapping tables (am,
\* avm), the customer's attributes, values and attribute lines (ra, rv, rl),
\* the calls issued, the number of the call that raises (0: none), the value
\* the last helper returned, and the locals of the loop.
NewVariantRun(am, avm, ra, rv, rl, fail) ==
    [am |-> am, avm |-> avm, ra |-> ra, rv |-> rv, rl |-> rl, fail |-> fail,
     calls |-> <<>>, raised |-> FALSE, ret |-> 0,
     client_value_ids |-> {}, attr_line_commands |-> <<>>]

\* models_proxy.execute_kw: nothing more is called once a call has raised.
execute_kw(acc, call) ==
    IF acc.raised THEN acc
    ELSE LET n == Len(acc.calls) + 1
         IN [acc EXCEPT !.calls = Append(@, [call EXCEPT !.ok = (n # acc.fail)]),
                        !.raised = (n = acc.fail)]

MappedId(maps, k) == IF k \in DOMAIN maps THEN maps[k] ELSE 0

\* _map_attribute after its create call.
AttributeCreated(c, a) ==
    IF c.raised THEN c
    ELSE [c EXCEPT !.ra = Append(@, AttributeName(a)),
                   !.am = With(@, a, Len(c.ra) + 1),
                   !.ret = Len(c.ra) + 1]

\* product.attribute search [('name', '=ilike', name)]
remote_attribute_search(ra, name) == {rid \in 1..Len(ra) : ILike(ra[rid], name)}

\* _map_attribute after its search call: the first match, or a new attribute.
AttributeSearched(s, a) ==
    IF s.raised THEN s
    ELSE IF remote_attribute_search(s.ra, AttributeName(a)) # {}
    THEN [s EXCEPT !.am = With(@, a, FirstId(remote_attribute_search(s.ra, AttributeName(a)))),
                   !.ret = FirstId(remote_attribute_search(s.ra, AttributeName(a)))]
    ELSE AttributeCreated(
             execute_kw(s, Call("product.attribute", "create", 0,
                                [name |-> AttributeName(a)], TRUE)), a)

_map_attribute(acc, a) ==
    IF MappedId(acc.am, a) # 0 THEN [acc EXCEPT !.ret = MappedId(acc.am, a)]
    ELSE AttributeSearched(
             execute_kw(acc, Call("product.attribute", "search", 0,
                                  [name |-> AttributeName(a)], TRUE)), a)

\* _map_attribute_value after its create call.
ValueCreated(c, v, client_attr_id) ==
    IF c.raised THEN c
    ELSE [c EXCEPT !.rv = Append(@, RemoteValue(ValueName(v), client_attr_id)),
                   !.avm = With(@, v, Len(c.rv) + 1),
                   !.ret = Len(c.rv) + 1]

\* product.attribute.value search by name and attribute.
remote_value_search(rv, name, client_attr_id) ==
    {rid \in 1..Len(rv) : ILike(rv[rid].name, name) /\ rv[rid].attribute_id = client_attr_id}

\* _map_attribute_value after its search call.
ValueSearched(s, v, client_attr_id) ==
    IF s.raised THEN s
    ELSE IF remote_value_search(s.rv, ValueName(v), client_attr_id) # {}
    THEN [s EXCEPT !.avm = With(@, v, FirstId(remote_value_search(s.rv, ValueName(v),
                                                                  client_attr_id))),
                   !.ret = FirstId(remote_value_search(s.rv, ValueName(v), client_attr_id))]
    ELSE ValueCreated(
             execute_kw(s, Call("product.attribute.value", "create", 0,
                                [name |-> ValueName(v), attribute_id |-> client_attr_id],
                                TRUE)), v, client_attr_id)

_map_attribute_value(acc, v, client_attr_id) ==
    IF MappedId(acc.avm, v) # 0 THEN [acc EXCEPT !.ret = MappedId(acc.avm, v)]
    ELSE ValueSearched(
             execute_kw(acc, Call("product.attribute.value", "search", 0,
                                  [name |-> ValueName(v), attribute_id |-> client_attr_id],
                                  TRUE)), v, client_attr_id)

\* client_value_ids.append(client_val_id) when the helper gave an id.
ValueKept(r) ==
    IF ~r.raised /\ r.ret # 0 THEN [r EXCEPT !.client_value_ids = @ \cup {r.ret}] ELSE r

\* The inner loop: the values of one line, those the variants use only.
RECURSIVE MapLineValues(_, _, _, _)
MapLineValues(acc, client_attr_id, value_ids, used) ==
    IF value_ids = <<>> \/ acc.raised THEN acc
    ELSE IF Head(value_ids) \notin used
    THEN MapLineValues(acc, client_attr_id, Tail(value_ids), used)
    ELSE MapLineValues(ValueKept(_map_attribute_value(acc, Head(value_ids), client_attr_id)),
                       client_attr_id, Tail(value_ids), used)

MappedLine(rl, id) == IF id \in DOMAIN rl THEN rl[id] ELSE {}

\* The line of the customer's template after read and write.
LineWritten(w, client_attr_id) ==
    IF w.raised THEN w
    ELSE [w EXCEPT !.rl = With(@, client_attr_id,
                               MappedLine(w.rl, client_attr_id) \cup w.client_value_ids)]

\* After the search for the line: its values are merged, or a new line is
\* queued.
LineSearched(s, client_attr_id) ==
    IF s.raised THEN s
    ELSE IF client_attr_id \in DOMAIN s.rl
    THEN LineWritten(
             execute_kw(
                 execute_kw(s, Call("product.template.attribute.line", "read",
                                    client_attr_id, EmptyMap, TRUE)),
                 Call("product.template.attribute.line", "write", client_attr_id,
                      [value_ids |-> MappedLine(s.rl, client_attr_id)
                                         \cup s.client_value_ids], TRUE)),
             client_attr_id)
    ELSE [s EXCEPT !.attr_line_commands =
                      Append(@, [attribute_id |-> client_attr_id,
                                 value_ids |-> s.client_value_ids])]

MergeLine(acc, client_attr_id) ==
    LineSearched(execute_kw(acc, Call("product.template.attribute.line", "search", 0,
                                      [attribute_id |-> client_attr_id], TRUE)),
                 client_attr_id)

\* One line after its values were mapped.
LineValuesMapped(v, client_attr_id) ==
    IF v.raised \/ v.client_value_ids = {} THEN v ELSE MergeLine(v, client_attr_id)

\* One line after its attribute was mapped.
LineAttributeMapped(m, supplier_attr, used) ==
    IF m.raised \/ m.ret = 0 THEN m
    ELSE LineValuesMapped(MapLineValues(m, m.ret, SetToSeq(LineValues(supplier_attr)), used),
                          m.ret)

\* One pass of the outer loop: attributes no variant uses are skipped.
MapLine(acc, supplier_attr, used) ==
    IF {u \in used : ValueAttribute(u) = supplier_attr} = {} THEN acc
    ELSE LineAttributeMapped(_map_attribute([acc EXCEPT !.client_value_ids = {}],
                                            supplier_attr),
                             supplier_attr, used)

RECURSIVE MapLines(_, _, _)
MapLines(acc, attr_lines, used) ==
    IF attr_lines = <<>> \/ acc.raised THEN acc
    ELSE MapLines(MapLine(acc, Head(attr_lines), used), Tail(attr_lines), used)

RECURSIVE NewLines(_, _)
NewLines(rl, commands) ==
    IF commands = <<>> THEN rl
    ELSE NewLines(With(rl, Head(commands).attribute_id,
                       MappedLine(rl, Head(commands).attribute_id)
                           \cup Head(commands).value_ids),
                  Tail(commands))

\* After the write of the new lines on the customer's template.
TemplateWritten(w) ==
    IF w.raised THEN w ELSE [w EXCEPT !.rl = NewLines(@, w.attr_line_commands)]

\* After the loop: the queued lines are written in one call.
LinesMapped(mapped) ==
    IF mapped.raised \/ mapped.attr_line_commands = <<>> THEN mapped
    ELSE TemplateWritten(
             execute_kw(mapped, Call("product.template", "write", 0,
                                     [attribute_line_ids |-> mapped.attr_line_commands],
                                     TRUE)))

\* A faulty restriction, kept for comparison: every variant is synchronised.
SupplierVariantsAll(pv, selected) == DOMAIN pv

\* supplier_variants: the selected variants, all of them without a selection.
SupplierVariants(pv, selected) ==
    IF selected # {} THEN {v \in DOMAIN pv : v \in selected} ELSE DOMAIN pv

\* The lines of the attributes that create variants.
AttrLines == {a \in Attributes : create_variant(a) \in {"always", "dynamic"}}

\* The values the given variants carry.
UsedValues(pv, supplier_variants) == UNION {pv[v] : v \in supplier_variants}

\* Step 1 of _sync_variants_to_client: attributes and values are mapped and
\* the attribute lines of the customer's template written.  (Step 2 reads and
\* writes the customer's variants only.)
_sync_variants_to_client(am, avm, ra, rv, rl, pv, selected, fail) ==
    IF AttrLines = {} \/ SupplierVariants(pv, selected) = {}
    THEN NewVariantRun(am, avm, ra, rv, rl, fail)
    ELSE LinesMapped(MapLines(NewVariantRun(am, avm, ra, rv, rl, fail),
                              SetToSeq(AttrLines),
                              UsedValues(pv, SupplierVariants(pv, selected))))

\* The executor synchronises the variants of the product: the client's
\* selection counts when it holds variants of this template.
SyncVariants(fail) ==
    /\ Len(callLog) < MaxSyncs
    /\ LET selected == {v \in selected_variant_ids : v \in DOMAIN product_variant_ids}
           r == _sync_variants_to_client(attribute_mapping_ids, attribute_value_mapping_ids,
                                         remote_attributes, remote_values,
                                         remote_attribute_lines, product_variant_ids,
                                         selected, fail)
       IN /\ fail # 0 => r.raised
          /\ attribute_mapping_ids' = r.am
          /\ attribute_value_mapping_ids' = r.avm
          /\ remote_attributes' = r.ra
          /\ remote_values' = r.rv
          /\ remote_attribute_lines' = r.rl
          /\ rpcLog' = r.calls
          /\ callLog' = Append(callLog, [op |-> "_sync_variants_to_client",
                                         arg |-> selected, result |-> 0,
                                         raised |-> r.raised, calls |-> r.calls])
    /\ UNCHANGED <<lifecycle, connection, category_mapping_ids, remote_categories,
                   product_variant_ids, selected_variant_ids, field_mapping, remote_supplierinfo>>

\* catalog_cart_variant_toggle: one variant enters or leaves the selection.
CartVariantToggle(variant_id, selected) ==
    /\ selected_variant_ids' = IF selected
                               THEN selected_variant_ids \cup {variant_id}
                               ELSE selected_variant_ids \ {variant_id}
    /\ selected_variant_ids' # selected_variant_ids
    /\ rpcLog' = <<>>
    /\ UNCHANGED <<lifecycle, connection, category_mapping_ids, remote_categories,
                   attribute_mapping_ids, attribute_value_mapping_ids,
                   remote_attributes, remote_values, remote_attribute_lines,
                   product_variant_ids, callLog, field_mapping, remote_supplierinfo>>

\* The client has selected a variant of another template.  The customer's
\* taxonomy at the start: empty, or attribute 1 under a
\* lower-case name, with or without its first value and a line on the template.
InitialTaxonomies ==
    { [ra |-> <<>>, rv |-> <<>>, rl |-> << >>],
      [ra |-> <<Lower(AttributeName(1))>>, rv |-> <<>>, rl |-> << >>],
      [ra |-> <<Lower(AttributeName(1))>>, rv |-> <<RemoteValue(ValueName(1), 1)>>,
       rl |-> With(<< >>, 1, {1})] }

InitVariants ==
    /\ connection \in {conn \in Connections : conn.reference_mode = "none"}
    /\ NoLifecycle
    /\ rpcLog = <<>>
    /\ category_mapping_ids = << >>
    /\ remote_categories = <<>>
    /\ callLog = <<>>
    /\ field_mapping = FieldMappings[1]
    /\ remote_supplierinfo = <<>>
    /\ product_variant_ids \in [Variants -> Combinations]
    /\ selected_variant_ids = {ForeignVariant}
    /\ attribute_mapping_ids \in {<< >>, With(<< >>, NumAttributes, 0)}
    /\ attribute_value_mapping_ids = << >>
    /\ \E t \in InitialTaxonomies :
          /\ remote_attributes = t.ra
          /\ remote_values = t.rv
          /\ remote_attribute_lines = t.rl

NextVariants ==
    \/ \E fail \in 0..MaxFail : SyncVariants(fail)
    \/ \E v \in Variants, selected \in BOOLEAN : CartVariantToggle(v, selected)

SpecVariants == InitVariants /\ [][NextVariants]_vars

\* ------------------------------------------------------- value resolution
\* The field mapping rows value resolution is run with: a source side (field,
\* coefficient), a target of each type and a default with its apply mode.
DefaultValues ==
    {PyFalse, <<" ">>, <<" ", "2">>, <<"1", ".", "5">>, <<"x">>, <<"Y", "e", "s">>}

ResolvedMappings ==
    [source_field : {"_none", "default_code", "list_price"},
     target_field : {"name", "list_price", "categ_id", "sale_ok"},
     sync_mode : {"always"},
     default_value : DefaultValues,
     default_value_apply : {"never", "if_source_empty", "always"},
     apply_coefficient : BOOLEAN,
     coefficient : {15},
     is_active : {TRUE}]

\* The mapping engine resolves the row for product p (0: no product).
ResolveValue(p) ==
    /\ Len(callLog) < MaxResolves
    /\ callLog' = Append(callLog, [op |-> "_resolve_value", arg |-> p,
                                   result |-> _resolve_value(field_mapping, p),
                                   raised |-> FALSE, calls |-> <<>>])
    /\ rpcLog' = <<>>
    /\ UNCHANGED <<lifecycle, connection, category_mapping_ids, remote_categories,
                   attribute_mapping_ids, attribute_value_mapping_ids,
                   remote_attributes, remote_values, remote_attribute_lines,
                   product_variant_ids, selected_variant_ids, field_mapping, remote_supplierinfo>>

InitResolve ==
    /\ connection \in Connections
    /\ NoLifecycle
    /\ rpcLog = <<>>
    /\ category_mapping_ids = << >>
    /\ attribute_mapping_ids = << >>
    /\ attribute_value_mapping_ids = << >>
    /\ remote_categories = <<>>
    /\ remote_attributes = <<>>
    /\ remote_values = <<>>
    /\ remote_attribute_lines = << >>
    /\ product_variant_ids = << >>
    /\ selected_variant_ids = {}
    /\ callLog = <<>>
    /\ field_mapping \in ResolvedMappings
    /\ remote_supplierinfo = <<>>

NextResolve == \E p \in Products \cup {0} : ResolveValue(p)

SpecResolve == InitResolve /\ [][NextResolve]_vars

\* ------------------------------------------------------ reference generation
\* The connections reference generation is run with: every mode, with and
\* without prefix, suffix, separator and custom format.
ReferenceConnections ==
    [client_id : ClientIds,
     reference_mode : ReferenceModes,
     reference_prefix : {PyFalse, <<"P">>},
     reference_suffix : {PyFalse, <<"S">>},
     reference_separator : {PyFalse, <<"-">>},
     reference_custom_format : {PyFalse, <<"{prefix}", "{separator}", "{id}">>},
     auto_create_categories : {TRUE},
     sync_variants : {FALSE},
     create_supplierinfo : {FALSE},
     supplier_partner_id : {0},
     supplierinfo_price_coefficient : {10}]

\* The reference of product p is generated.
GenerateReference(p) ==
    /\ Len(callLog) < MaxGenerated
    /\ callLog' = Append(callLog, [op |-> "generate_product_reference", arg |-> p,
                                   result |-> generate_product_reference(connection, p),
                                   raised |-> FALSE, calls |-> <<>>])
    /\ rpcLog' = <<>>
    /\ UNCHANGED <<lifecycle, connection, category_mapping_ids, remote_categories,
                   attribute_mapping_ids, attribute_value_mapping_ids,
                   remote_attributes, remote_values, remote_attribute_lines,
                   product_variant_ids, selected_variant_ids, field_mapping, remote_supplierinfo>>

InitReference ==
    /\ connection \in ReferenceConnections
    /\ NoLifecycle
    /\ rpcLog = <<>>
    /\ NoTaxonomy

NextReference == \E p \in Products : GenerateReference(p)

SpecReference == InitReference /\ [][NextReference]_vars

\* ------------------------------------------------------------------ warnings
\* Prices are floats counted in tenths, compared and divided exactly.
PriceDecrease == <<"P","r","i","c","e"," ","d","e","c","r","e","a","s","e",":"," ">>

\* f'{decrease_pct:.1f}%' of (old - new) / old * 100, rounded to the nearest
\* tenth of a percent.
FormatPct(old, new) ==
    LET pct_tenths == (2000 * (old - new) + old) \div (2 * old)
    IN IntToStr(pct_tenths \div 10) \o <<".", Digit(pct_tenths % 10), "%">>

\* A faulty threshold, kept for comparison: a decrease of 10% warns as well.
ExceedsThresholdOrEqual(old, new) == 100 * (old - new) >= 10 * old

\* decrease_pct > 10
ExceedsThreshold(old, new) == 100 * (old - new) > 10 * old

\* changes: the field changes, a function from target fields to old and new.
_detect_warnings(changes) ==
    IF /\ "standard_price" \in DOMAIN changes
       /\ Truthy(changes["standard_price"].old)
       /\ Truthy(changes["standard_price"].new)
       /\ Tenths(changes["standard_price"].old) > 0
       /\ ExceedsThreshold(Tenths(changes["standard_price"].old),
                           Tenths(changes["standard_price"].new))
    THEN PriceDecrease \o FormatPct(Tenths(changes["standard_price"].old),
                                    Tenths(changes["standard_price"].new))
    ELSE PyFalse

\* The prices warning detection is run with, an unset one among them.
OldPrices == {PyFalse, PyFloat(0), PyFloat(500), PyFloat(1000)}

NewPrices ==
    {PyFalse, PyFloat(440), PyFloat(800), PyFloat(899), PyFloat(900), PyFloat(950),
     PyFloat(1000), PyFloat(1200)}

\* The change maps: with or without a price change, with or without a change
\* of the name.
ChangeMaps ==
    LET name_change == [old |-> <<"O">>, new |-> <<"N">>]
        price_changes == [old : OldPrices, new : NewPrices]
    IN {EmptyMap, With(EmptyMap, "name", name_change)}
         \cup {With(EmptyMap, "standard_price", c) : c \in price_changes}
         \cup {With(With(EmptyMap, "name", name_change), "standard_price", c) :
                 c \in price_changes}

\* Warning detection runs on a change map.
DetectWarnings(changes) ==
    /\ Len(callLog) < MaxWarnings
    /\ callLog' = Append(callLog, [op |-> "_detect_warnings", arg |-> changes,
                                   result |-> _detect_warnings(changes),
                                   raised |-> FALSE, calls |-> <<>>])
    /\ rpcLog' = <<>>
    /\ UNCHANGED <<lifecycle, connection, category_mapping_ids, remote_categories,
                   attribute_mapping_ids, attribute_value_mapping_ids,
                   remote_attributes, remote_values, remote_attribute_lines,
                   product_variant_ids, selected_variant_ids, field_mapping, remote_supplierinfo>>

InitWarnings ==
    /\ connection \in Connections
    /\ NoLifecycle
    /\ rpcLog = <<>>
    /\ NoTaxonomy

NextWarnings == \E changes \in ChangeMaps : DetectWarnings(changes)

SpecWarnings == InitWarnings /\ [][NextWarnings]_vars

\* -------------------------------------------------------------- update diff
MaxDiffs == 1

\* The mapping rows the diff is run with: every sync mode, active or not,
\* with and without a default; a price is only ever fed from a price.
DiffMappings ==
    {m \in [source_field : {"name", "list_price"},
            target_field : {"name", "standard_price", "categ_id"},
            sync_mode : {"create_only", "always", "if_empty", "manual"},
            default_value : {PyFalse, <<"2">>},
            default_value_apply : {"never", "always"},
            apply_coefficient : {FALSE},
            coefficient : {10},
            is_active : BOOLEAN] :
        m.target_field = "standard_price" => m.source_field = "list_price"}

\* The customer's template matched to product 1, with the default_codes of
\* its product.product records (False: a variant without a code).
DiffClients(conn) ==
    [default_code : {external_id(conn, 1)},
     name : {ProductName(1), <<"O">>, PyFalse},
     standard_price : {PyFloat(0), PyFloat(100)},
     categ_id : {PyInt(2)},
     product_variant_ids : {{}, {PyFalse},
                            {variant_external_id(conn, v) : v \in Variants}}]

\* The variants of product 1: a single variant without attribute values, or
\* one variant per value.
DiffVariants == {With(<< >>, 1, {}), [v \in Variants |-> {v}]}

\* client_variant_skus after the guarded fetch: fail = 1 the search raises,
\* fail = 2 the read raises, both are swallowed.
ClientVariantSkus(client, fail) ==
    IF fail # 0 THEN {}
    ELSE {code \in client.product_variant_ids : Truthy(code)}

\* The remote calls of _get_variant_preview_data against template tmpl_id.
VariantPreviewCalls(pv, client, tmpl_id, fail) ==
    IF \A v \in DOMAIN pv : pv[v] = {} THEN <<>>
    ELSE <<Call("product.product", "search", tmpl_id, EmptyMap, fail # 1)>>
           \o (IF fail # 1 /\ client.product_variant_ids # {}
               THEN <<Call("product.product", "read", tmpl_id, EmptyMap, fail # 2)>>
               ELSE <<>>)

\* variant_data of _create_update_change.
UpdateVariantData(conn, pv, client, fail) ==
    IF conn.sync_variants
    THEN _get_variant_preview_data(conn, pv, ClientVariantSkus(client, fail))
    ELSE << >>

\* What _create_update_change stores: the change record, its variant_changes
\* and its warning_message.
DiffResult(p, client_product_id, changes, variant_data) ==
    [change |-> UpdateChange(p, client_product_id, changes, variant_data),
     variant_changes |-> variant_data,
     warning_message |-> IF DOMAIN changes # {} \/ DOMAIN variant_data # {}
                         THEN _detect_warnings(changes) ELSE PyFalse]

DiffCalls(conn, pv, client, client_product_id, fail) ==
    <<Call("product.template", "read", client_product_id, EmptyMap, TRUE)>>
      \o (IF conn.sync_variants
          THEN VariantPreviewCalls(pv, client, client_product_id, fail)
          ELSE <<>>)

\* _create_update_change for product p, matched to the customer's record 1.
UpdateDiff(p, fail) ==
    /\ Len(callLog) < MaxDiffs
    /\ callLog' = Append(callLog,
          [op |-> "_create_update_change", arg |-> p,
           result |-> DiffResult(p, 1,
                                 UpdateChanges(<<field_mapping>>, p, remote[1]),
                                 UpdateVariantData(connection, product_variant_ids,
                                                   remote[1], fail)),
           raised |-> FALSE,
           calls |-> DiffCalls(connection, product_variant_ids, remote[1], 1, fail)])
    /\ rpcLog' = DiffCalls(connection, product_variant_ids, remote[1], 1, fail)
    /\ UNCHANGED <<lifecycle, connection, category_mapping_ids, remote_categories,
                   attribute_mapping_ids, attribute_value_mapping_ids,
                   remote_attributes, remote_values, remote_attribute_lines,
                   product_variant_ids, selected_variant_ids, field_mapping, remote_supplierinfo>>

InitUpdateDiff ==
    /\ connection \in {[conn EXCEPT !.sync_variants = b] :
                          conn \in {c \in Connections : c.reference_mode = "none"},
                          b \in BOOLEAN}
    /\ \E client \in DiffClients(connection) : remote = <<client>>
    /\ createdFor = [p \in Products |-> {}]
    /\ previews = << >>
    /\ nextPreviewId = 1
    /\ histories = <<>>
    /\ workers = [w \in WorkerIds |-> IdleWorker]
    /\ stateLog = <<>>
    /\ lastRun = NoRun
    /\ rpcLog = <<>>
    /\ category_mapping_ids = << >>
    /\ attribute_mapping_ids = << >>
    /\ attribute_value_mapping_ids = << >>
    /\ remote_categories = <<>>
    /\ remote_attributes = <<>>
    /\ remote_values = <<>>
    /\ callLog = <<>>
    /\ remote_attribute_lines = << >>
    /\ product_variant_ids \in DiffVariants
    /\ selected_variant_ids = {}
    /\ field_mapping \in DiffMappings
    /\ remote_supplierinfo = <<>>

NextUpdateDiff == \E fail \in 0..MaxFail : UpdateDiff(1, fail)

SpecUpdateDiff == InitUpdateDiff /\ [][NextUpdateDiff]_vars

\* ------------------------------------------------------------ supplier info
MaxSupplierSyncs == 2

Partner == 9

\* _get_supplierinfo_price: the sales price times the coefficient (the
\* default price field; the coefficient is counted in tenths).
_get_supplierinfo_price(conn, p) ==
    IF conn.supplierinfo_price_coefficient # 0
    THEN Times(ProductField(p, "list_price"), conn.supplierinfo_price_coefficient)
    ELSE ProductField(p, "list_price")

SupplierInfo(partner_id, product_tmpl_id, product_code, product_name, price) ==
    [partner_id |-> partner_id, product_tmpl_id |-> product_tmpl_id,
     product_code |-> product_code, product_name |-> product_name, price |-> price]

SupplierInfoResult(table, calls, raised) ==
    [table |-> table, calls |-> calls, raised |-> raised]

\* The rows of the search domain (partner_id, product_tmpl_id).
SupplierInfoSearch(table, conn, client_product_id) ==
    {i \in 1..Len(table) :
        /\ table[i].partner_id = conn.supplier_partner_id
        /\ table[i].product_tmpl_id = client_product_id}

SupplierInfoWritten(table, ids, p, price) ==
    [i \in 1..Len(table) |->
        IF i \in ids
        THEN [table[i] EXCEPT !.product_code = OrEmpty(ProductCode(p)),
                              !.product_name = ProductName(p), !.price = price]
        ELSE table[i]]

\* A faulty reconciliation, kept for comparison: a failure is handed to the
\* caller.
SupplierInfoNotSwallowed(table, conn, p, client_product_id, sfail) ==
    SupplierInfoResult(table, <<>>, IF sfail # 0 THEN "remote" ELSE "none")

\* sfail: 0 nothing fails, 1 the price computation raises, 2 the search
\* raises, 3 the write or the create raises.  Whatever is raised is logged
\* and dropped.
_create_or_update_supplierinfo(table, conn, p, client_product_id, sfail) ==
    IF sfail = 1 THEN SupplierInfoResult(table, <<>>, "none")
    ELSE IF sfail = 2
    THEN SupplierInfoResult(table,
            <<Call("product.supplierinfo", "search", client_product_id, EmptyMap, FALSE)>>,
            "none")
    ELSE IF SupplierInfoSearch(table, conn, client_product_id) # {}
    THEN SupplierInfoResult(
            IF sfail = 3 THEN table
            ELSE SupplierInfoWritten(table,
                     SupplierInfoSearch(table, conn, client_product_id),
                     p, _get_supplierinfo_price(conn, p)),
            <<Call("product.supplierinfo", "search", client_product_id, EmptyMap, TRUE),
              Call("product.supplierinfo", "write", client_product_id, EmptyMap, sfail # 3)>>,
            "none")
    ELSE SupplierInfoResult(
            IF sfail = 3 THEN table
            ELSE Append(table, SupplierInfo(conn.supplier_partner_id, client_product_id,
                                            OrEmpty(ProductCode(p)), ProductName(p),
                                            _get_supplierinfo_price(conn, p))),
            <<Call("product.supplierinfo", "search", client_product_id, EmptyMap, TRUE),
              Call("product.supplierinfo", "create", client_product_id, EmptyMap, sfail # 3)>>,
            "none")

\* The executor's result with the supplier info step behind it.
WithSupplierInfo(r, si) ==
    [remote |-> r.remote, table |-> si.table, calls |-> r.calls \o si.calls,
     raised |-> si.raised, new_id |-> r.new_id]

\* The tail of _execute_create and of _execute_update once the product call
\* returned: supplier info is reconciled when the connection asks for it and
\* knows the partner.  r: the result of the product step.
SupplierInfoStep(r, table, conn, change, sfail) ==
    IF r.raised # "none" \/ ~conn.create_supplierinfo \/ conn.supplier_partner_id = 0
    THEN WithSupplierInfo(r, SupplierInfoResult(table, <<>>, r.raised))
    ELSE WithSupplierInfo(r,
            _create_or_update_supplierinfo(table, conn, change.product_id,
                IF change.change_type = "create" THEN r.new_id
                ELSE change.client_product_id,
                sfail))

\* The body of the per-change try block with the supplier info step.
ExecuteChange(rem, table, conn, change, fail, sfail) ==
    IF change.change_type = "create"
    THEN SupplierInfoStep(_execute_create(rem, conn, change, fail), table, conn, change, sfail)
    ELSE IF change.change_type = "update"
    THEN SupplierInfoStep(_execute_update(rem, conn, change, fail), table, conn, change, sfail)
    ELSE WithSupplierInfo(ExecResult(rem, <<>>, "none", 0),
                          SupplierInfoResult(table, <<>>, "none"))

\* What the loop keeps of one change: the counters and the error list.
Outcome(change, r) ==
    [stats |-> CountOutcome(NoStats, change.change_type, r.raised),
     errors |-> IF r.raised # "none"
                THEN <<[product |-> change.product_id, error |-> r.raised]>>
                ELSE <<>>]

Synced(change, fail, sfail, r) ==
    /\ remote' = r.remote
    /\ remote_supplierinfo' = r.table
    /\ rpcLog' = r.calls
    /\ callLog' = Append(callLog,
          [op |-> "sync_change",
           arg |-> [change |-> change, fail |-> fail, sfail |-> sfail],
           result |-> Outcome(change, r),
           raised |-> FALSE, calls |-> r.calls])

\* One turn of the executor's loop for the change a preview holds for p.
SyncChange(p, fail, sfail) ==
    /\ Len(callLog) < MaxSupplierSyncs
    /\ Len(remote) < MaxRemote
    /\ Synced(PreviewChange(connection, p, remote), fail, sfail,
              ExecuteChange(remote, remote_supplierinfo, connection,
                            PreviewChange(connection, p, remote), fail, sfail))
    /\ UNCHANGED <<connection, createdFor, previews, nextPreviewId, histories, workers,
                   stateLog, lastRun, category_mapping_ids, remote_categories,
                   attribute_mapping_ids, attribute_value_mapping_ids,
                   remote_attributes, remote_values, remote_attribute_lines,
                   product_variant_ids, selected_variant_ids, field_mapping>>

InitSupplierInfo ==
    /\ connection \in {[conn EXCEPT !.create_supplierinfo = b, !.supplier_partner_id = partner] :
                          conn \in {c \in Connections : c.reference_mode = "none"},
                          b \in BOOLEAN, partner \in {0, Partner}}
    /\ remote \in {<<>>, <<RemoteRecord(external_id(connection, 1), <<"O">>)>>,
                   <<RemoteRecord(ProductCode(1), ProductName(1))>>}
    /\ createdFor = [p \in Products |-> {}]
    /\ previews = << >>
    /\ nextPreviewId = 1
    /\ histories = <<>>
    /\ workers = [w \in WorkerIds |-> IdleWorker]
    /\ stateLog = <<>>
    /\ lastRun = NoRun
    /\ rpcLog = <<>>
    /\ category_mapping_ids = << >>
    /\ attribute_mapping_ids = << >>
    /\ attribute_value_mapping_ids = << >>
    /\ remote_categories = <<>>
    /\ remote_attributes = <<>>
    /\ remote_values = <<>>
    /\ callLog = <<>>
    /\ remote_attribute_lines = << >>
    /\ product_variant_ids = << >>
    /\ selected_variant_ids = {}
    /\ field_mapping = FieldMappings[1]
    /\ remote_supplierinfo \in
          {<<>>, <<SupplierInfo(Partner, 1, <<"O">>, <<"O">>, PyFloat(0))>>}

NextSupplierInfo ==
    \E p \in Products, fail \in BOOLEAN, sfail \in 0..3 : SyncChange(p, fail, sfail)

SpecSupplierInfo == InitSupplierInfo /\ [][NextSupplierInfo]_vars

\* ================================================================== claims
Results == {lastRun.results[k] : k \in 1..Len(lastRun.results)}

Updates == {r \in Results : r.change.change_type = "update"}

IssuesWrite(r) ==
    \E c \in 1..Len(r.calls) : r.calls[c].method \in {"write", "create"}

NewValues(change) == [f \in DOMAIN change.field_changes |-> change.field_changes[f].new]

WritesNewValues(r) ==
    \E c \in 1..Len(r.calls) :
        /\ r.calls[c].model = "product.template"
        /\ r.calls[c].method = "write"
        /\ r.calls[c].id = r.change.client_product_id
        /\ r.calls[c].values = NewValues(r.change)

Recognized(p, default_code) ==
    \/ default_code = external_id(connection, p)
    \/ default_code = generate_product_reference(connection, p)

\* C1: an update whose remote record carries neither the external identifier
\* nor the human reference of its product raises the safety-check failure and
\* issues no remote write or create.
C1_UnrecognizedIdentifierRefused ==
    \A r \in Updates :
        ~Recognized(r.change.product_id, r.default_code)
            => r.raised = "safety" /\ ~IssuesWrite(r)

C1_Witness ==
    \E r \in Updates :
        /\ ~Recognized(r.change.product_id, r.default_code)
        /\ r.raised = "safety"

\* C2: an update whose remote record carries the human reference generated for
\* its product passes the safety check and issues the write with the change's
\* new values.
C2_HumanReferenceAccepted ==
    \A r \in Updates :
        r.default_code = generate_product_reference(connection, r.change.product_id)
            => r.raised # "safety" /\ WritesNewValues(r)

\* C3: an update whose remote record carries the external identifier of its
\* product passes the safety check and applies the field-change map: the write
\* with the new values is issued, and nothing is raised when the remote accepts it.
C3_ExternalIdentifierAccepted ==
    \A r \in Updates :
        r.default_code = external_id(connection, r.change.product_id)
            => /\ r.raised # "safety"
               /\ DOMAIN r.change.field_changes # {} => WritesNewValues(r)
               /\ (\A c \in 1..Len(r.calls) : r.calls[c].ok) => r.raised = "none"

C3_Witness ==
    \E r \in Updates :
        /\ r.default_code = external_id(connection, r.change.product_id)
        /\ r.raised = "none"
        /\ WritesNewValues(r)

\* The preview the portal has just generated successfully.
Previewed ==
    IF lastRun.kind = "portal_preview" /\ lastRun.preview_id \in Existing
          /\ previews[lastRun.preview_id].state = "ready"
    THEN {previews[lastRun.preview_id]}
    ELSE {}

ChangesOf(pv) == {pv.changes[i] : i \in 1..Len(pv.changes)}

BatchOf(pv) == {pv.product_ids[i] : i \in 1..Len(pv.product_ids)}

\* The remote records that carry one of the two identifiers of product p.
Matches(p) == {rid \in 1..Len(remote) : Recognized(p, remote[rid].default_code)}

\* C4: a product of the previewed batch with a remote record carrying either
\* identifier is classified update or skip against that record, never create.
C4_MatchedNeverCreate ==
    \A pv \in Previewed : \A ch \in ChangesOf(pv) :
        Matches(ch.product_id) # {}
            => /\ ch.change_type \in {"update", "skip"}
               /\ ch.client_product_id \in Matches(ch.product_id)

\* C5: the engine never creates more than one remote record for one local
\* product, over any sequence of preview and execution cycles.
C5_NoDuplicateCreate ==
    \A p \in Products : Cardinality(createdFor[p]) <= 1

\* C6: a product of the previewed batch without a matching remote record gets
\* exactly one change, of type create, whose field changes all have old = null.
C6_UnmatchedIsCreate ==
    \A pv \in Previewed : \A p \in BatchOf(pv) :
        Matches(p) = {}
            => /\ Cardinality({i \in 1..Len(pv.changes) : pv.changes[i].product_id = p}) = 1
               /\ \A ch \in ChangesOf(pv) :
                     ch.product_id = p
                        => /\ ch.change_type = "create"
                           /\ \A f \in DOMAIN ch.field_changes :
                                 ch.field_changes[f].old = PyNone

C6_Witness ==
    \E pv \in Previewed : \E ch \in ChangesOf(pv) :
        /\ Matches(ch.product_id) = {}
        /\ Len(remote) > 0
        /\ ch.change_type = "create"
        /\ DOMAIN ch.field_changes # {}

AllowedTransitions ==
    { <<"draft", "analyzing">>, <<"analyzing", "ready">>, <<"analyzing", "draft">>,
      <<"ready", "executing">>, <<"executing", "done">>, <<"executing", "cancelled">>,
      <<"cancelled", "done">>, <<"executing", "ready">> }

\* C7: every assignment to a preview's state follows the defined state path.
C7_OnlyDefinedTransitions ==
    \A k \in 1..Len(stateLog) :
        <<stateLog[k][2], stateLog[k][3]>> \in AllowedTransitions

NonTerminal == {"draft", "analyzing", "ready", "executing"}

\* C8: the connection has at most one non-terminal preview, and no done or
\* cancelled preview is left once the portal has generated a preview.
C8_OneActivePreview ==
    /\ Cardinality({i \in Existing : previews[i].state \in NonTerminal}) <= 1
    /\ lastRun.kind = "portal_preview"
          => \A i \in Existing : previews[i].state \notin {"done", "cancelled"}

Counted(h) ==
    h.products_created + h.products_updated + h.products_skipped + h.products_error

\* C9: a worker that reads cancelled before change k stops there with the
\* message 'Import cancelled by user', issues no remote call afterwards, and
\* its finalisation adds a History row counting exactly the k-1 changes
\* processed before.
C9_CancelObservedStopsRun ==
    [][\A w \in DOMAIN workers :
          LET me == workers[w]
              id == me.preview_id
          IN /\ (me.pc = "loop" /\ id \in Existing /\ previews[id].state = "cancelled"
                    /\ workers'[w] # me)
                  => /\ workers'[w].pc = "postloop"
                     /\ rpcLog' = <<>>
                     /\ previews'[id].sync_message = "Import cancelled by user"
             /\ (me.cancel_seen_at > 0 /\ workers'[w] # me) => rpcLog' = <<>>
             /\ (me.cancel_seen_at > 0 /\ me.pc = "finalize" /\ workers'[w].pc = "idle")
                  => /\ Len(histories') = Len(histories) + 1
                     /\ Counted(histories'[Len(histories')]) = me.cancel_seen_at - 1
      ]_vars

\* C10: a cancelled preview is never lost or returned to ready: its only next
\* state is done, with sync_history_id pointing to a History row.
C10_CancelledOnlyEndsDone ==
    [][\A id \in Existing :
          previews[id].state = "cancelled"
             => /\ id \in DOMAIN previews'
                /\ previews'[id].state \in {"cancelled", "done"}
                /\ previews'[id].state = "done"
                      => previews'[id].sync_history_id \in 1..Len(histories')
      ]_vars

\* C11: a background run that observed the cancellation with changes left
\* unprocessed writes a History row with status partial when a product was
\* created or updated before, error otherwise, and leaves the preview done
\* with the message 'Import cancelled by user'.
C11_CancelledRunStatus ==
    [][\A w \in DOMAIN workers :
          LET me == workers[w]
              id == me.preview_id
          IN (me.pc = "finalize" /\ me.cancel_seen_at > 0
                 /\ Len(histories') = Len(histories) + 1)
               => LET h == histories'[Len(histories')]
                  IN /\ h.status = IF h.products_created + h.products_updated > 0
                                   THEN "partial" ELSE "error"
                     /\ previews'[id].state = "done"
                     /\ previews'[id].sync_message = "Import cancelled by user"
      ]_vars

\* Two of the BatchSize changes were left when the cancellation was seen, and
\* a product had been created or updated before.
C11_Witness ==
    \E id \in Existing :
        /\ previews[id].state = "done"
        /\ previews[id].sync_total = BatchSize
        /\ previews[id].sync_current = BatchSize - 2
        /\ previews[id].sync_message = "Import cancelled by user"
        /\ previews[id].sync_history_id \in 1..Len(histories)
        /\ LET h == histories[previews[id].sync_history_id]
           IN /\ Counted(h) = BatchSize - 2
              /\ h.status = "partial"

Failed(rs) == {k \in 1..Len(rs) : rs[k].raised # "none"}

Succeeded(rs, type) ==
    {k \in 1..Len(rs) : rs[k].raised = "none" /\ rs[k].change.change_type = type}

\* C12: in both executors a change that raises adds one to the error counter
\* and one entry naming its product to the error list, is not counted as
\* created or updated, and does not end the loop: the later non-excluded
\* changes are still processed.
C12_FailureIsolatedPerChange ==
    [][/\ (lastRun'.kind = "execute_sync" /\ Len(histories') = Len(histories) + 1)
           => LET rs == lastRun'.results
                  h == histories'[Len(histories')]
                  todo == NotExcluded(previews[lastRun'.preview_id].changes)
              IN /\ Len(rs) = Len(todo)
                 /\ \A k \in 1..Len(rs) : rs[k].change = todo[k]
                 /\ h.products_error = Cardinality(Failed(rs))
                 /\ Len(h.errors) = Cardinality(Failed(rs))
                 /\ \A k \in Failed(rs) :
                       Cardinality({j \in 1..Len(h.errors) :
                                      h.errors[j].product = rs[k].change.product_id}) = 1
                 /\ h.products_created = Cardinality(Succeeded(rs, "create"))
                 /\ h.products_updated = Cardinality(Succeeded(rs, "update"))
       /\ \A w \in DOMAIN workers :
             LET me == workers[w]
                 after == workers'[w]
             IN (me.pc = "process" /\ after # me /\ lastRun'.results[1].raised # "none")
                  => LET r == lastRun'.results[1]
                     IN /\ r.change = me.changes[me.idx]
                        /\ after.stats = [me.stats EXCEPT !.errors = @ + 1]
                        /\ after.errors = Append(me.errors,
                               [product |-> r.change.product_id, error |-> r.raised])
                        /\ after.idx = me.idx + 1
                        /\ after.pc = IF me.idx < Len(me.changes) THEN "loop" ELSE "postloop"
      ]_vars

\* A synchronous run in which the first change failed and the next one was
\* still executed.
C12_Witness ==
    /\ lastRun.kind = "execute_sync"
    /\ Len(lastRun.results) >= 2
    /\ lastRun.results[1].raised # "none"
    /\ lastRun.results[2].raised = "none"
    /\ lastRun.results[2].change.change_type \in {"create", "update"}
    /\ histories # <<>>
    /\ histories[Len(histories)].products_error = 1

\* The status the error and success counters of a History row call for.
StatusByCounters(h) ==
    IF h.products_error = 0 THEN "success"
    ELSE IF h.products_created + h.products_updated > 0 THEN "partial"
    ELSE "error"

\* C13: every History row has status success exactly when it counts no error,
\* partial exactly when it counts an error and a created or updated product,
\* error exactly when it counts an error and no created or updated product.
C13_StatusFollowsCounters ==
    \A k \in 1..Len(histories) : histories[k].status = StatusByCounters(histories[k])

\* C13, amended: the status follows the counters for every run that did not
\* read cancelled after its loop; a run that did is partial when a product was
\* created or updated and error otherwise, whatever its error counter.
C13_StatusFollowsCountersUnlessCancelled ==
    [][Len(histories') = Len(histories) + 1
         => LET h == histories'[Len(histories')]
                cancelled == \E w \in DOMAIN workers :
                                /\ workers[w].pc = "finalize"
                                /\ workers'[w] # workers[w]
                                /\ workers[w].was_cancelled
            IN h.status = IF cancelled
                          THEN (IF h.products_created + h.products_updated > 0
                                THEN "partial" ELSE "error")
                          ELSE StatusByCounters(h)
      ]_vars

\* A cancelled background run without any error whose History row is partial,
\* next to the row of a run that was not cancelled.
C13_Witness ==
    \E j, k \in 1..Len(histories) :
        /\ histories[j].error_message = "Import cancelled by user"
        /\ histories[j].products_error = 0
        /\ histories[j].status = "partial"
        /\ histories[k].error_message # "Import cancelled by user"
        /\ histories[k].products_error > 0
        /\ histories[k].status = "partial"

\* The step of worker w ends its run in the handler of the outer try: the
\* authentication was rejected, or the final writes raised.
FatalStep(w) ==
    \/ /\ workers[w].pc = "start"
       /\ workers[w].preview_id \in Existing
       /\ workers'[w].pc = "idle"
    \/ /\ workers[w].pc = "finalize"
       /\ workers'[w].pc = "idle"
       /\ Len(histories') = Len(histories)

\* C14: a failure of the worker outside the per-product handler leaves no
\* History row of the run and the preview in state ready with the failure text
\* in sync_error_message, from where a new background execution can start.
C14_FatalFailureReturnsToReady ==
    [][\A w \in DOMAIN workers :
          FatalStep(w)
            => LET id == workers[w].preview_id
               IN /\ histories' = histories
                  /\ id \in DOMAIN previews'
                  /\ previews'[id].state = "ready"
                  /\ previews'[id].sync_error_message # ""
                  /\ workers'[w].pc = "idle"
      ]_vars

\* C15: while a preview stays in executing or cancelled, and when it becomes
\* done, the committed sync_current and sync_progress never decrease; and the
\* progress of a change is committed before the change is executed.
C15_ProgressMonotonic ==
    [][/\ \A id \in Existing :
             (previews[id].state \in {"executing", "cancelled"} /\ id \in DOMAIN previews'
                 /\ previews'[id].state \in {"executing", "cancelled", "done"})
               => /\ previews'[id].sync_current >= previews[id].sync_current
                  /\ previews'[id].sync_progress >= previews[id].sync_progress
       /\ \A w \in DOMAIN workers :
             LET me == workers[w]
             IN (me.pc = "process" /\ workers'[w] # me /\ me.preview_id \in Existing)
                  => /\ previews[me.preview_id].sync_current = me.idx
                     /\ previews[me.preview_id].sync_progress
                           = (me.idx * 100) \div Len(me.changes)
                     /\ previews' = previews
      ]_vars

\* The third of BatchSize changes is about to be executed and its progress is
\* already committed.
C15_Witness ==
    \E w \in DOMAIN workers :
        /\ workers[w].pc = "process"
        /\ workers[w].idx = 3
        /\ workers[w].preview_id \in Existing
        /\ previews[workers[w].preview_id].state = "executing"
        /\ previews[workers[w].preview_id].sync_current = 3
        /\ previews[workers[w].preview_id].sync_progress = 60

\* The workers that have not finished with preview id.
WorkersOn(id) == {w \in DOMAIN workers : workers[w].pc # "idle" /\ workers[w].preview_id = id}

\* C16: a worker is started only for a preview whose state is ready; the start
\* marks it executing with sync_total the number of non-excluded changes
\* before the worker has taken a step; and a preview never has two workers.
C16_OneWorkerPerPreview ==
    [][/\ \A w \in DOMAIN workers :
             (workers[w].pc = "idle" /\ workers'[w].pc # "idle")
               => LET id == workers'[w].preview_id
                  IN /\ id \in Existing
                     /\ previews[id].state = "ready"
                     /\ previews'[id].state = "executing"
                     /\ previews'[id].sync_total = Len(NotExcluded(previews[id].changes))
                     /\ workers'[w].pc = "start"
       /\ \A id \in PreviewIds : Cardinality(WorkersOn(id))' <= 1
      ]_vars

\* A run has just been started from ready with one change excluded, its
\* worker has not taken a step, and a thread is free for another start.
C16_Witness ==
    \E w \in DOMAIN workers :
        /\ workers[w].pc = "start"
        /\ FreeWorkers # {}
        /\ previews[workers[w].preview_id].state = "executing"
        /\ previews[workers[w].preview_id].sync_total = BatchSize - 1
        /\ stateLog = << <<workers[w].preview_id, "ready", "executing">> >>

\* C17: after a preview generation in which a remote call failed, the preview
\* is in state draft and no change produced by that generation is attached to
\* it.
C17_FailedPreviewLeavesNothing ==
    (/\ lastRun.kind = "portal_preview"
     /\ lastRun.preview_id \in Existing
     /\ \E k \in 1..Len(rpcLog) : ~rpcLog[k].ok)
       => /\ previews[lastRun.preview_id].state = "draft"
          /\ previews[lastRun.preview_id].changes = <<>>

\* The calls of _map_category made so far that returned.
Returned(op) == {k \in 1..Len(callLog) : callLog[k].op = op /\ ~callLog[k].raised}

Creates(calls) == {k \in 1..Len(calls) : calls[k].method = "create"}

\* C18: with auto-create enabled, two calls of _map_category for the same
\* category return the same client id, the second one from the stored mapping
\* without any remote call, and at most one remote create is issued in all.
C18_MapCategoryIdempotent ==
    connection.auto_create_categories
      => \A i, j \in Returned("_map_category") :
            (i < j /\ callLog[i].arg = callLog[j].arg)
              => /\ callLog[j].result = callLog[i].result
                 /\ callLog[i].result # 0
                 /\ callLog[j].calls = <<>>
                 /\ Cardinality(Creates(callLog[i].calls)) <= 1

\* Category 2 was mapped twice: the first call created it on the customer's
\* side, the second returned the same id.
C18_Witness ==
    /\ connection.auto_create_categories
    /\ \E i, j \in Returned("_map_category") :
          /\ i < j
          /\ callLog[i].arg = 2
          /\ callLog[j].arg = 2
          /\ Creates(callLog[i].calls) # {}
          /\ callLog[j].result = callLog[i].result

\* The remote calls of the last step on the given model.
CallsOn(log, model) == {k \in 1..Len(log) : log[k].model = model}

\* C19: a variant sync restricted to selected variants searches, creates and
\* maps only attributes and values carried by one of the selected variants.
C19_OnlySelectedTaxonomy ==
    [][(/\ Len(callLog') = Len(callLog) + 1
        /\ callLog'[Len(callLog')].op = "_sync_variants_to_client"
        /\ selected_variant_ids \cap DOMAIN product_variant_ids # {})
       => LET subset == selected_variant_ids \cap DOMAIN product_variant_ids
              carried == UNION {product_variant_ids[v] : v \in subset}
              attrs == {ValueAttribute(v) : v \in carried}
          IN /\ \A k \in CallsOn(rpcLog', "product.attribute") :
                    \E a \in attrs : rpcLog'[k].values.name = AttributeName(a)
             /\ \A k \in CallsOn(rpcLog', "product.attribute.value") :
                    \E v \in carried :
                       /\ rpcLog'[k].values.name = ValueName(v)
                       /\ ValueAttribute(v) \in DOMAIN attribute_mapping_ids'
                       /\ rpcLog'[k].values.attribute_id
                              = attribute_mapping_ids'[ValueAttribute(v)]
             /\ \A a \in Attributes \ attrs :
                    /\ a \in DOMAIN attribute_mapping_ids' <=> a \in DOMAIN attribute_mapping_ids
                    /\ a \in DOMAIN attribute_mapping_ids
                         => attribute_mapping_ids'[a] = attribute_mapping_ids[a]
             /\ \A v \in AttributeValues \ carried :
                    /\ v \in DOMAIN attribute_value_mapping_ids'
                         <=> v \in DOMAIN attribute_value_mapping_ids
                    /\ v \in DOMAIN attribute_value_mapping_ids
                         => attribute_value_mapping_ids'[v] = attribute_value_mapping_ids[v]]_vars

\* A restricted sync has run to its end and created a value on the customer's
\* side, while an unselected variant carries an attribute that no selected
\* variant carries.
C19_Witness ==
    /\ callLog # <<>>
    /\ callLog[Len(callLog)].op = "_sync_variants_to_client"
    /\ ~callLog[Len(callLog)].raised
    /\ LET subset == callLog[Len(callLog)].arg
           carried == UNION {product_variant_ids[v] : v \in subset}
       IN /\ subset # {}
          /\ \E u \in DOMAIN product_variant_ids \ subset : \E x \in product_variant_ids[u] :
                \A v \in carried : ValueAttribute(v) # ValueAttribute(x)
          /\ \E k \in CallsOn(rpcLog, "product.attribute.value") :
                rpcLog[k].method = "create"

\* The value a default stands for on a target field: the text without its
\* outer blanks on a Char, a float (0.0 when the text is no number) on a price,
\* an int (False when the text is no integer) on the category, a boolean on a
\* flag.
TypedDefault(target_field, default_value) ==
    CASE target_field = "name" ->
            (CASE default_value = <<" ">> -> <<>>
               [] default_value = <<" ", "2">> -> <<"2">>
               [] OTHER -> default_value)
      [] target_field = "list_price" ->
            (CASE default_value = <<" ", "2">> -> <<"<float>", "2", "0">>
               [] default_value = <<"1", ".", "5">> -> <<"<float>", "1", "5">>
               [] OTHER -> <<"<float>", "0">>)
      [] target_field = "categ_id" ->
            (CASE default_value = <<" ", "2">> -> <<"<int>", "2">>
               [] OTHER -> PyFalse)
      [] target_field = "sale_ok" ->
            (CASE default_value = <<"Y", "e", "s">> -> PyTrue
               [] OTHER -> PyFalse)

\* C20: a mapping whose default applies always and is not empty resolves to
\* the typed default, whatever the product, the source field and the
\* coefficient.
C20_AlwaysDefaultIgnoresSource ==
    (field_mapping.default_value_apply = "always"
        /\ field_mapping.default_value \notin {PyFalse, <<>>})
      => \A k \in 1..Len(callLog) :
            callLog[k].op = "_resolve_value"
              => callLog[k].result = TypedDefault(field_mapping.target_field,
                                                  field_mapping.default_value)

\* A price mapping with coefficient and the default 1.5 applied always was
\* resolved for products 1 and 2, whose prices differ: both gave 1.5.
C20_Witness ==
    /\ field_mapping.default_value_apply = "always"
    /\ field_mapping.default_value = <<"1", ".", "5">>
    /\ field_mapping.source_field = "list_price"
    /\ field_mapping.target_field = "list_price"
    /\ field_mapping.apply_coefficient
    /\ Len(callLog) = 2
    /\ callLog[1].arg = 1
    /\ callLog[2].arg = 2
    /\ callLog[1].result = callLog[2].result
    /\ ProductField(1, "list_price") # ProductField(2, "list_price")

\* The create calls on product.template issued by the last step.
CreateCalls ==
    {k \in 1..Len(rpcLog) :
        rpcLog[k].model = "product.template" /\ rpcLog[k].method = "create"}

\* C21: every create payload carries a non-empty default_code; without
\* reference (mode none) no product gets a generated reference, the payload
\* carries the external identifier of a product, and a later preview
\* classifies a product the engine has created update or skip against a record
\* created for it.
C21_NoneModeFallsBackToExternalId ==
    /\ \A k \in CreateCalls : Truthy(rpcLog[k].values["default_code"])
    /\ connection.reference_mode = "none"
         => /\ \A p \in Products : ~Truthy(generate_product_reference(connection, p))
            /\ \A k \in CreateCalls : \E p \in Products :
                  rpcLog[k].values["default_code"] = external_id(connection, p)
            /\ \A pv \in Previewed : \A ch \in ChangesOf(pv) :
                  createdFor[ch.product_id] # {}
                    => /\ ch.change_type \in {"update", "skip"}
                       /\ ch.client_product_id \in createdFor[ch.product_id]

\* Without reference, a product the engine created in an earlier cycle was
\* previewed again and found under its external identifier.
C21_Witness ==
    /\ connection.reference_mode = "none"
    /\ \E pv \in Previewed : \E ch \in ChangesOf(pv) :
          /\ createdFor[ch.product_id] # {}
          /\ ch.change_type \in {"update", "skip"}
          /\ remote[ch.client_product_id].default_code
                = external_id(connection, ch.product_id)

\* The reference spelled out for each combination of present parts: pre and
\* suf are the prefix and suffix (empty when absent), base the base value.
SpelledReference(pre, base, suf, sep) ==
    CASE pre # <<>> /\ base # <<>> /\ suf # <<>> -> pre \o sep \o base \o sep \o suf
      [] pre # <<>> /\ base # <<>> /\ suf = <<>> -> pre \o sep \o base
      [] pre # <<>> /\ base = <<>> /\ suf # <<>> -> pre \o sep \o suf
      [] pre = <<>> /\ base # <<>> /\ suf # <<>> -> base \o sep \o suf
      [] pre # <<>> /\ base = <<>> /\ suf = <<>> -> pre
      [] pre = <<>> /\ base # <<>> /\ suf = <<>> -> base
      [] pre = <<>> /\ base = <<>> /\ suf # <<>> -> suf
      [] OTHER -> PyFalse

Text(v) == IF v = PyFalse THEN <<>> ELSE v

\* C22: in the modes keep_original, supplier_ref and product_id the reference
\* is the non-empty parts among prefix, base value and suffix, in that order,
\* joined by the separator; False when no part is left; and the same product
\* gives the same reference again.
C22_ReferenceJoinsPresentParts ==
    connection.reference_mode \in {"keep_original", "supplier_ref", "product_id"}
      => \A k \in 1..Len(callLog) :
            callLog[k].op = "generate_product_reference"
              => /\ callLog[k].result
                      = SpelledReference(Text(connection.reference_prefix),
                                         IF connection.reference_mode = "product_id"
                                         THEN IntToStr(callLog[k].arg)
                                         ELSE Text(ProductCode(callLog[k].arg)),
                                         Text(connection.reference_suffix),
                                         Text(connection.reference_separator))
                 /\ \A j \in 1..Len(callLog) :
                       callLog[j].arg = callLog[k].arg
                         => callLog[j].result = callLog[k].result

\* A product without internal reference got prefix and suffix joined by one
\* separator, twice over.
C22_Witness ==
    /\ connection.reference_mode = "supplier_ref"
    /\ Len(callLog) = 2
    /\ callLog[1].arg = callLog[2].arg
    /\ ProductCode(callLog[1].arg) = PyFalse
    /\ callLog[1].result = <<"P", "-", "S">>
    /\ callLog[2].result = <<"P", "-", "S">>

\* The price change of a change map, old and new in tenths (0 when unset or
\* absent).
PriceOf(changes, side) ==
    IF "standard_price" \notin DOMAIN changes THEN 0
    ELSE IF changes["standard_price"][side] = PyFalse THEN 0
    ELSE StrToNat(Tail(changes["standard_price"][side]))

\* C23: a warning is given exactly when the map holds a standard_price change
\* with old > 0, a non-zero new value and a decrease of more than 10%; 100 to
\* 80 gives 'Price decrease: 20.0%', 100 to 95 and 100 to 90 give none.
C23_WarningAboveTenPercent ==
    \A k \in 1..Len(callLog) :
        callLog[k].op = "_detect_warnings"
          => LET old == PriceOf(callLog[k].arg, "old")
                 new == PriceOf(callLog[k].arg, "new")
             IN /\ callLog[k].result # PyFalse
                     <=> (old > 0 /\ new # 0 /\ 10 * (old - new) > old)
                /\ (old = 1000 /\ new = 800)
                     => callLog[k].result = PriceDecrease \o <<"2", "0", ".", "0", "%">>
                /\ (old = 1000 /\ new \in {900, 950}) => callLog[k].result = PyFalse

\* Detection ran on a decrease of 20% and on one of exactly 10%.
C23_Witness ==
    /\ Len(callLog) = 2
    /\ PriceOf(callLog[1].arg, "old") = 1000
    /\ PriceOf(callLog[1].arg, "new") = 800
    /\ callLog[1].result # PyFalse
    /\ PriceOf(callLog[2].arg, "old") = 1000
    /\ PriceOf(callLog[2].arg, "new") = 900
    /\ callLog[2].result = PyFalse


\* The logged runs of _create_update_change.
DiffEntries == {i \in 1..Len(callLog) : callLog[i].op = "_create_update_change"}

\* A variant of the product that carries attribute values and is not among
\* the customer's variants under its external id.
VariantDiffers ==
    /\ connection.sync_variants
    /\ \E v \in DOMAIN product_variant_ids :
          /\ product_variant_ids[v] # {}
          /\ variant_external_id(connection, v) \notin remote[1].product_variant_ids

\* C24: for a matched product a field change is recorded only when the
\* resolved value differs from the remote's, and the product is classified
\* skip whenever no field change is recorded and no variant differs -- also
\* when variant sync is enabled and its variants already exist remotely --
\* and update otherwise.
C24_SkipUnlessSomethingDiffers ==
    \A i \in DiffEntries :
       LET change == callLog[i].result.change
       IN /\ \A f \in DOMAIN change.field_changes :
                ~PyEquals(change.field_changes[f].new, remote[1][f])
          /\ change.change_type =
                IF DOMAIN change.field_changes # {} \/ VariantDiffers
                THEN "update" ELSE "skip"


\* C25: an inactive or create_only mapping never contributes a field change
\* to an update; an if_empty mapping contributes none when the remote value
\* is non-empty; an always or manual mapping contributes one exactly when
\* its resolved value differs from the remote's.
C25_SyncModeDecidesContribution ==
    \A i \in DiffEntries :
       LET m == field_mapping
           contributes == m.target_field \in DOMAIN callLog[i].result.change.field_changes
           remote_value == remote[1][m.target_field]
       IN /\ (~m.is_active \/ m.sync_mode = "create_only") => ~contributes
          /\ (m.sync_mode = "if_empty" /\ Truthy(remote_value)) => ~contributes
          /\ (m.is_active /\ m.sync_mode \in {"always", "manual"})
                => (contributes <=> ~PyEquals(_resolve_value(m, 1), remote_value))


\* The product step of a logged loop turn went through: the change is a
\* create or an update, no product.template call was rejected and, for an
\* update, the record read carried the product's external id.
ProductStepDone(e, rem) ==
    /\ e.arg.change.change_type \in {"create", "update"}
    /\ ~e.arg.fail
    /\ e.arg.change.change_type = "update"
          => rem[e.arg.change.client_product_id].default_code
                = external_id(connection, e.arg.change.product_id)

SupplierInfoAsked ==
    connection.create_supplierinfo /\ connection.supplier_partner_id # 0

\* C26: a failure inside the supplier info reconciliation (price
\* computation, search, write or create) is swallowed: the product's create
\* or update is counted as created or updated and the error list stays
\* empty.
C26_SupplierInfoFailureSwallowed ==
    [][(/\ Len(callLog') = Len(callLog) + 1
        /\ callLog'[Len(callLog')].op = "sync_change"
        /\ callLog'[Len(callLog')].arg.sfail # 0
        /\ SupplierInfoAsked
        /\ ProductStepDone(callLog'[Len(callLog')], remote))
       => LET e == callLog'[Len(callLog')]
          IN /\ e.result.errors = <<>>
             /\ e.result.stats.errors = 0
             /\ e.result.stats.created
                   = (IF e.arg.change.change_type = "create" THEN 1 ELSE 0)
             /\ e.result.stats.updated
                   = (IF e.arg.change.change_type = "update" THEN 1 ELSE 0)
             /\ remote_supplierinfo' = remote_supplierinfo]_vars

\* A created product whose supplier info could not be created is counted.
C26_Witness ==
    /\ callLog # <<>>
    /\ SupplierInfoAsked
    /\ LET e == callLog[Len(callLog)]
       IN /\ e.op = "sync_change"
          /\ e.arg.sfail = 3
          /\ e.arg.change.change_type = "create"
          /\ \E k \in 1..Len(e.calls) :
                e.calls[k].model = "product.supplierinfo" /\ ~e.calls[k].ok
          /\ e.result.stats.created = 1
          /\ e.result.errors = <<>>


\* The remote methods a lookup may use.
ReadOnlyMethods == {"authenticate", "search", "read"}

\* C27: preview generation, whether it succeeds or fails, issues only
\* authenticate, search and read calls: no create and no write, on any model.
C27_PreviewIsReadOnly ==
    lastRun.kind = "portal_preview"
       => \A k \in 1..Len(rpcLog) : rpcLog[k].method \in ReadOnlyMethods

\* A preview that read a matched record and then failed on a later search.
C27_Witness ==
    /\ lastRun.kind = "portal_preview"
    /\ \E k \in 1..Len(rpcLog) : rpcLog[k].method = "read"
    /\ \E k \in 1..Len(rpcLog) : rpcLog[k].method = "search" /\ ~rpcLog[k].ok
    /\ lastRun.preview_id \in DOMAIN previews
    /\ previews[lastRun.preview_id].state = "draft"


\* The run a new History row belongs to was cancelled.
CancelledRun(pv) == pv.sync_message = "Import cancelled by user"

\* The results of a run that carry the given type and did, or did not, raise.
ResultsOf(results, types, raised) ==
    {k \in 1..Len(results) :
        /\ results[k].change.change_type \in types
        /\ (results[k].raised # "none") = raised}

\* C28: the four counters of a History row add up to the number of
\* non-excluded changes of the preview when the run was not cancelled and to
\* no more than that when it was; no change is counted in two counters.
C28_CountersAddUp ==
    [][Len(histories') = Len(histories) + 1
       => LET h == histories'[Len(histories')]
              id == lastRun'.preview_id
              n == Len(NotExcluded(previews[id].changes))
          IN /\ Counted(h) <= n
             /\ ~CancelledRun(previews'[id]) => Counted(h) = n
             /\ lastRun'.kind = "execute_sync"
                   => /\ h.products_created
                           = Cardinality(ResultsOf(lastRun'.results, {"create"}, FALSE))
                      /\ h.products_updated
                           = Cardinality(ResultsOf(lastRun'.results, {"update"}, FALSE))
                      /\ h.products_skipped
                           = Cardinality(ResultsOf(lastRun'.results, {"skip"}, FALSE))
                      /\ h.products_error
                           = Cardinality(ResultsOf(lastRun'.results,
                                                   {"create", "update", "skip"}, TRUE))]_vars

\* A cancelled background run whose History counts fewer changes than the
\* preview holds.
C28_Witness ==
    /\ lastRun.kind = "worker_finalize"
    /\ histories # <<>>
    /\ lastRun.preview_id \in DOMAIN previews
    /\ CancelledRun(previews[lastRun.preview_id])
    /\ previews[lastRun.preview_id].sync_history_id = Len(histories)
    /\ Counted(histories[Len(histories)]) >= 1
    /\ Counted(histories[Len(histories)])
          < Len(NotExcluded(previews[lastRun.preview_id].changes))


\* The steps in which an executor processes changes.
ExecutorKinds == {"execute_sync", "worker_process"}

\* C29: in both executors a remote call is issued on behalf of a change only
\* when the change is not excluded and is a create or an update: an excluded
\* change is never processed or counted, and a skip change only increments
\* the skipped counter, without any remote call.
C29_OnlyIncludedCreatesAndUpdatesCall ==
    [][lastRun'.kind \in ExecutorKinds
       => /\ \A k \in 1..Len(lastRun'.results) :
                LET r == lastRun'.results[k]
                IN /\ ~r.change.is_excluded
                   /\ r.calls # <<>> => r.change.change_type \in {"create", "update"}
                   /\ r.change.change_type = "skip" => r.calls = <<>> /\ r.raised = "none"
          /\ \A k \in 1..Len(rpcLog') :
                rpcLog'[k].method # "authenticate"
                   => \E j \in 1..Len(lastRun'.results) :
                         \E i \in 1..Len(lastRun'.results[j].calls) :
                            lastRun'.results[j].calls[i] = rpcLog'[k]
          /\ (lastRun'.kind = "execute_sync" /\ Len(histories') > Len(histories))
                => Counted(histories'[Len(histories')]) = Len(lastRun'.results)
          /\ lastRun'.kind = "worker_process"
                => \A w \in DOMAIN workers :
                      (workers'[w] # workers[w]
                         /\ lastRun'.results[1].change.change_type = "skip")
                      => /\ workers'[w].stats
                               = [workers[w].stats EXCEPT !.skipped = @ + 1]
                         /\ workers'[w].errors = workers[w].errors
                         /\ remote' = remote]_vars

\* A synchronous run over a preview with an excluded change and a skip
\* change: one change processed, without a call.
C29_Witness ==
    /\ lastRun.kind = "execute_sync"
    /\ lastRun.preview_id \in DOMAIN previews
    /\ \E i \in 1..Len(previews[lastRun.preview_id].changes) :
          previews[lastRun.preview_id].changes[i].is_excluded
    /\ Len(lastRun.results) = 1
    /\ lastRun.results[1].change.change_type = "skip"
    /\ lastRun.results[1].calls = <<>>
    /\ histories # <<>>
    /\ histories[Len(histories)].products_skipped = 1
    /\ Counted(histories[Len(histories)]) = 1


\* C30: the portal's cleanup of cancelled and done previews never deletes a
\* preview whose background worker has not finished, so the row exists when
\* the worker writes its final state and its History pointer.
C30_CleanupSparesRunningPreview ==
    [][/\ \A id \in Existing : id \notin Existing' => WorkersOn(id) = {}
       /\ \A w \in DOMAIN workers :
             workers'[w].pc = "finalize" => workers'[w].preview_id \in Existing']_vars

====
